---- MODULE Spec2Model ----
(***************************************************************************)
(* Repository quality scorer of the code analysis platform:                *)
(* AnalysisService.analyzeRepository and the functions it calls            *)
(* (collectCodeFiles, traverseDirectory, calculateBasicMetrics,            *)
(* performAIAnalysis, calculateScores), with the remote source host, the   *)
(* text-generation service and the persistence store as environment.       *)
(*                                                                         *)
(* Strings are sequences of one-character strings, so that substring,      *)
(* lastIndexOf, trim and split are computed as the code computes them.     *)
(* Numbers that the code holds as floats are exact rationals here; NaN is  *)
(* a value of its own.                                                     *)
(***************************************************************************)
EXTENDS Integers, Sequences, FiniteSets, TLC

\* ------------------------------------------------------------------ strings

Max(a, b) == IF a >= b THEN a ELSE b

\* the first argument whatever the cap
MinUncapped(a, b) == a

Min(a, b) == IF a <= b THEN a ELSE b

\* \s of the regular expressions and of String.prototype.trim
Whitespace == {" ", "\t", "\n", "\r", "\f"}

\* \w of the regular expressions: the characters on either side of \b
WordChars ==
    { "a", "b", "c", "d", "e", "f", "g", "h", "i", "j", "k", "l", "m",
      "n", "o", "p", "q", "r", "s", "t", "u", "v", "w", "x", "y", "z",
      "A", "B", "C", "D", "E", "F", "G", "H", "I", "J", "K", "L", "M",
      "N", "O", "P", "Q", "R", "S", "T", "U", "V", "W", "X", "Y", "Z",
      "0", "1", "2", "3", "4", "5", "6", "7", "8", "9", "_" }

\* name.lastIndexOf(c), 1-based; 0 when c does not occur (-1 in the code)
lastIndexOf(s, c) ==
    LET hits == {i \in 1..Len(s) : s[i] = c}
    IN  IF hits = {} THEN 0 ELSE CHOOSE i \in hits : \A j \in hits : j <= i

\* name.substring(from) with a 1-based from; a from below the first
\* character (the code's -1) is clamped to the start of the string
substring(s, from) == SubSeq(s, Max(from, 1), Len(s))

\* line.trim()
RECURSIVE trimStart(_)
trimStart(s) ==
    IF s # <<>> /\ Head(s) \in Whitespace THEN trimStart(Tail(s)) ELSE s

RECURSIVE trimEnd(_)
trimEnd(s) ==
    IF s # <<>> /\ s[Len(s)] \in Whitespace
    THEN trimEnd(SubSeq(s, 1, Len(s) - 1))
    ELSE s

trim(s) == trimEnd(trimStart(s))

\* content.split('\n'): always at least one line
RECURSIVE split(_)
split(s) ==
    LET nl == {i \in 1..Len(s) : s[i] = "\n"}
    IN  IF nl = {}
        THEN <<s>>
        ELSE LET i == CHOOSE k \in nl : \A j \in nl : k <= j
             IN  <<SubSeq(s, 1, i - 1)>> \o split(SubSeq(s, i + 1, Len(s)))

\* ------------------------------------------------- constants of the collector

maxFiles == 100

maxFileSize == 100000

supportedExtensions ==
    { <<".", "j", "s">>, <<".", "t", "s">>, <<".", "j", "s", "x">>, <<".", "t", "s", "x">>, <<".", "p", "y">>, <<".", "j", "a", "v", "a">>, <<".", "g", "o">>, <<".", "r", "b">>,
      <<".", "p", "h", "p">>, <<".", "c">>, <<".", "c", "p", "p">>, <<".", "c", "s">>, <<".", "s", "w", "i", "f", "t">>, <<".", "k", "t">>, <<".", "r", "s">>, <<".", "v", "u", "e">>,
      <<".", "s", "q", "l">>, <<".", "y", "a", "m", "l">>, <<".", "y", "m", "l">> }

ignoredDirs ==
    { <<"n", "o", "d", "e", "_", "m", "o", "d", "u", "l", "e", "s">>, <<".", "g", "i", "t">>, <<"d", "i", "s", "t">>, <<"b", "u", "i", "l", "d">>, <<"c", "o", "v", "e", "r", "a", "g", "e">>, <<".", "n", "e", "x", "t">>,
      <<"v", "e", "n", "d", "o", "r">>, <<"t", "a", "r", "g", "e", "t">>, <<"_", "_", "p", "y", "c", "a", "c", "h", "e", "_", "_">>, <<".", "v", "e", "n", "v">>, <<"v", "e", "n", "v">> }

detectLanguage(extension) ==
    CASE extension \in {<<".", "j", "s">>, <<".", "j", "s", "x">>} -> "javascript"
      [] extension \in {<<".", "t", "s">>, <<".", "t", "s", "x">>} -> "typescript"
      [] extension = <<".", "p", "y">> -> "python"
      [] extension = <<".", "j", "a", "v", "a">> -> "java"
      [] extension = <<".", "g", "o">> -> "go"
      [] extension = <<".", "r", "b">> -> "ruby"
      [] extension = <<".", "p", "h", "p">> -> "php"
      [] extension = <<".", "c">> -> "c"
      [] extension = <<".", "c", "p", "p">> -> "cpp"
      [] extension = <<".", "c", "s">> -> "csharp"
      [] extension = <<".", "s", "w", "i", "f", "t">> -> "swift"
      [] extension = <<".", "k", "t">> -> "kotlin"
      [] extension = <<".", "r", "s">> -> "rust"
      [] extension = <<".", "v", "u", "e">> -> "vue"
      [] extension = <<".", "s", "q", "l">> -> "sql"
      [] extension \in {<<".", "y", "a", "m", "l">>, <<".", "y", "m", "l">>} -> "yaml"
      [] OTHER -> "text"

\* ------------------------------------------------------------ the remote host
\* A remote tree is a table of entries; entry k lies in the directory
\* `parent` (0 is the root) and a listing returns the entries of a
\* directory in table order.  `flaky` marks the entries whose fetch (the
\* listing of a directory, the content of a file) the remote host may fail.

Dir(name, parent, flaky) ==
    [name |-> name, type |-> "dir", size |-> 0, parent |-> parent,
     content |-> <<>>, flaky |-> flaky]

File(name, parent, size, content, flaky) ==
    [name |-> name, type |-> "file", size |-> size, parent |-> parent,
     content |-> content, flaky |-> flaky]

Other(name, type, parent) ==
    [name |-> name, type |-> type, size |-> 0, parent |-> parent,
     content |-> <<>>, flaky |-> FALSE]

Digit(d) == <<"0", "1", "2", "3", "4", "5", "6", "7", "8", "9">>[d + 1]

Numbered(prefix, n, ext) ==
    prefix \o <<Digit((n \div 10) % 10), Digit(n % 10)>> \o ext

EmptyTree == <<>>

MixedTree ==
    << Dir(<<"n", "o", "d", "e", "_", "m", "o", "d", "u", "l", "e", "s">>, 0, TRUE),
       File(<<"i", "n", "d", "e", "x", ".", "j", "s">>, 1, 40, <<"m", "o", "d", "u", "l", "e", ".", "e", "x", "p", "o", "r", "t", "s", " ", "=", " ", "r", "e", "q", "u", "i", "r", "e", "(", "'", ".", "/", "l", "i", "b", "'", ")", ";", "\n">>, TRUE),
       Dir(<<"s", "r", "c">>, 0, TRUE),
       File(<<"a", "p", "p", ".", "t", "s">>, 3, 120,
            <<"i", "f", " ", "(", "a", ")", " ", "{", "\n", " ", " ", "c", "o", "n", "s", "t", " ", "t", "o", "t", "a", "l", " ", "=", " ", "a", " ", "+", " ", "b", ";", "\n", "}", "\n", "c", "o", "n", "s", "t", " ", "t", "o", "t", "a", "l", " ", "=", " ", "a", " ", "+", " ", "b", ";", "\n", "w", "h", "i", "l", "e", "(", "x", ")", " ", "f", "o", "r", " ", "(", ";", ";", ")", " ", "y", " ", "=", " ", "p", " ", "?", " ", "q", " ", ":", " ", "r", ";", "\n">>,
            TRUE),
       Dir(<<"v", "e", "n", "d", "o", "r">>, 3, TRUE),
       File(<<"l", "i", "b", ".", "j", "s">>, 5, 30, <<"v", "a", "r", " ", "v", "e", "n", "d", "o", "r", "e", "d", " ", "=", " ", "t", "r", "u", "e", ";">>, TRUE),
       File(<<"u", "t", "i", "l", ".", "t", "e", "s", "t", ".", "j", "s">>, 3, 64,
            <<"\t", "c", "o", "n", "s", "t", " ", "t", "o", "t", "a", "l", " ", "=", " ", "a", " ", "+", " ", "b", ";", " ", " ", "\n", "s", "w", "i", "t", "c", "h", " ", "(", "k", ")", " ", "{", "}", "\n", "t", "r", "y", " ", "{", "}", " ", "c", "a", "t", "c", "h", " ", "(", "e", ")", " ", "{", "}">>,
            TRUE),
       File(<<"R", "E", "A", "D", "M", "E", ".", "m", "d">>, 0, 200, <<"#", " ", "r", "e", "a", "d", "m", "e">>, TRUE),
       File(<<"d", "u", "m", "p", ".", "s", "q", "l">>, 0, 100000, <<"s", "e", "l", "e", "c", "t", " ", "1", ";">>, TRUE),
       File(<<"M", "a", "k", "e", "f", "i", "l", "e">>, 0, 10, <<"a", "l", "l", ":">>, TRUE),
       Other(<<"c", "u", "r", "r", "e", "n", "t">>, "symlink", 0),
       File(<<"e", "m", "p", "t", "y", ".", "p", "y">>, 0, 0, <<>>, FALSE),
       File(<<"s", "c", "h", "e", "m", "a", ".", "s", "q", "l">>, 0, 99999, <<"s", "e", "l", "e", "c", "t", " ", "*", " ", "f", "r", "o", "m", " ", "t", ";", "\n", "s", "e", "l", "e", "c", "t", " ", "*", " ", "f", "r", "o", "m", " ", "t", ";">>, TRUE) >>

\* More eligible files than the collector accepts: src holds 50 files, then
\* the directory core (55 files), then one more file; the root goes on with
\* a file and a directory after src.
BigSrcFiles == 50
BigCoreFiles == 55

BigTree ==
    LET coreId == 4 + BigSrcFiles + 1
    IN  [k \in 1..(coreId + 1 + BigCoreFiles) |->
           CASE k = 1 -> Dir(<<"s", "r", "c">>, 0, TRUE)
             [] k = 2 -> File(<<"z", ".", "t", "s">>, 0, 10, <<"z">>, FALSE)
             [] k = 3 -> Dir(<<"d", "o", "c", "s">>, 0, FALSE)
             [] k = 4 -> File(<<"g", "u", "i", "d", "e", ".", "y", "a", "m", "l">>, 3, 10, <<"a", ":", " ", "1">>, FALSE)
             [] k \in 5..(4 + BigSrcFiles) ->
                    File(Numbered(<<"f">>, k - 4, <<".", "t", "s">>), 1, 10, <<"x">>, k = 5)
             [] k = coreId -> Dir(<<"c", "o", "r", "e">>, 1, TRUE)
             [] k = coreId + 1 -> File(<<"g", ".", "t", "s">>, 1, 10, <<"g">>, FALSE)
             [] OTHER ->
                    File(Numbered(<<"h">>, k - coreId - 1, <<".", "p", "y">>), coreId, 10,
                         <<"y">>, k = coreId + 3)]

Trees == <<EmptyTree, MixedTree, BigTree>>

\* getRepositoryContents(fullName, path, branch) of directory d (0: the root)
Listing(tree, d) == SelectSeq([k \in 1..Len(tree) |-> k], LAMBDA k : tree[k].parent = d)

\* item.path: the names from the root down to the entry
RECURSIVE PathOf(_, _)
PathOf(tree, k) ==
    IF k = 0 THEN <<>> ELSE PathOf(tree, tree[k].parent) \o <<tree[k].name>>

\* ------------------------------------------------------------ static metrics

\* the index of the first character at or after p that is no whitespace
RECURSIVE skipWhitespace(_, _)
skipWhitespace(s, p) ==
    IF p <= Len(s) /\ s[p] \in Whitespace THEN skipWhitespace(s, p + 1) ELSE p

\* the index after the run of characters "." matches (no line terminator)
RECURSIVE skipLine(_, _)
skipLine(s, p) ==
    IF p <= Len(s) /\ s[p] \notin {"\n", "\r"} THEN skipLine(s, p + 1) ELSE p

\* content.match(/\bkw\s*\(/g).length: the matches cannot overlap
countKeyword(s, kw) ==
    Cardinality(
        {i \in 1..Len(s) :
            /\ i + Len(kw) - 1 <= Len(s)
            /\ SubSeq(s, i, i + Len(kw) - 1) = kw
            /\ (i = 1 \/ s[i - 1] \notin WordChars)
            /\ LET p == skipWhitespace(s, i + Len(kw))
               IN  p <= Len(s) /\ s[p] = "("})

\* /\?\s*.*\s*:/ matched at the "?" at index i: the ends of the candidate
\* matches, as pairs <<whitespace taken by the first \s*, characters taken
\* by .*>>; the second \s* can only stop before a ":" after taking all the
\* whitespace there is
ternaryCandidates(s, i) ==
    {c \in (0..(skipWhitespace(s, i + 1) - i - 1)) \X (0..Len(s)) :
        LET q == i + 1 + c[1] + c[2]
            r == skipWhitespace(s, q)
        IN  /\ q <= skipLine(s, i + 1 + c[1])
            /\ r <= Len(s)
            /\ s[r] = ":"}

\* the index of the ":" the greedy match ends with: the quantifiers are
\* tried longest first, from left to right
ternaryEnd(s, i) ==
    LET cs == ternaryCandidates(s, i)
        best == CHOOSE c \in cs :
                    \A e \in cs : e[1] < c[1] \/ (e[1] = c[1] /\ e[2] <= c[2])
    IN  skipWhitespace(s, i + 1 + best[1] + best[2])

\* content.match(/\?\s*.*\s*:/g).length from index `from` on: each search
\* resumes after the previous match
RECURSIVE countTernary(_, _)
countTernary(s, from) ==
    LET starts == {i \in from..Len(s) : s[i] = "?" /\ ternaryCandidates(s, i) # {}}
    IN  IF starts = {}
        THEN 0
        ELSE LET i == CHOOSE k \in starts : \A j \in starts : k <= j
             IN  1 + countTernary(s, ternaryEnd(s, i) + 1)

\* the matches of the six complexityPatterns in one file
fileComplexity(content) ==
    countKeyword(content, <<"i", "f">>) + countKeyword(content, <<"f", "o", "r">>)
    + countKeyword(content, <<"w", "h", "i", "l", "e">>) + countKeyword(content, <<"s", "w", "i", "t", "c", "h">>)
    + countKeyword(content, <<"c", "a", "t", "c", "h">>) + countTernary(content, 1)

\* the inner loop with the counter advanced at every occurrence, the first
\* one included
RECURSIVE countDuplicateLinesFromFirst(_, _)
countDuplicateLinesFromFirst(lines, acc) ==
    IF lines = <<>>
    THEN acc
    ELSE LET trimmed == trim(Head(lines))
             seen == DOMAIN acc.lineHashes
             count == IF trimmed \in seen THEN acc.lineHashes[trimmed] ELSE 0
         IN  IF Len(trimmed) > 10
             THEN countDuplicateLinesFromFirst(Tail(lines),
                      [lineHashes |->
                          [h \in seen \cup {trimmed} |->
                              IF h = trimmed THEN count + 1 ELSE acc.lineHashes[h]],
                       duplicateLines |->
                          acc.duplicateLines + (IF count >= 0 THEN 1 ELSE 0)])
             ELSE countDuplicateLinesFromFirst(Tail(lines), acc)

\* the inner loop over the lines of one file: acc is
\* [lineHashes, duplicateLines]
RECURSIVE countDuplicateLines(_, _)
countDuplicateLines(lines, acc) ==
    IF lines = <<>>
    THEN acc
    ELSE LET trimmed == trim(Head(lines))
             seen == DOMAIN acc.lineHashes
             count == IF trimmed \in seen THEN acc.lineHashes[trimmed] ELSE 0
         IN  IF Len(trimmed) > 10
             THEN countDuplicateLines(Tail(lines),
                      [lineHashes |->
                          [h \in seen \cup {trimmed} |->
                              IF h = trimmed THEN count + 1 ELSE acc.lineHashes[h]],
                       duplicateLines |->
                          acc.duplicateLines + (IF count > 0 THEN 1 ELSE 0)])
             ELSE countDuplicateLines(Tail(lines), acc)

\* the body of the outer loop with totalLines assigned, not added to
metricsOfFileLinesAssigned(file, acc) ==
    LET lines == split(file.content)
        dup == countDuplicateLines(lines,
                   [lineHashes |-> acc.lineHashes,
                    duplicateLines |-> acc.duplicateLines])
    IN  [totalLines |-> Len(lines),
         totalComplexity |-> acc.totalComplexity + fileComplexity(file.content),
         lineHashes |-> dup.lineHashes,
         duplicateLines |-> dup.duplicateLines]

\* the body of the outer loop for one file: acc is
\* [totalLines, totalComplexity, lineHashes, duplicateLines]
metricsOfFile(file, acc) ==
    LET lines == split(file.content)
        dup == countDuplicateLines(lines,
                   [lineHashes |-> acc.lineHashes,
                    duplicateLines |-> acc.duplicateLines])
    IN  [totalLines |-> acc.totalLines + Len(lines),
         totalComplexity |-> acc.totalComplexity + fileComplexity(file.content),
         lineHashes |-> dup.lineHashes,
         duplicateLines |-> dup.duplicateLines]

\* the outer loop over files[lo..hi], in order: the first half of the
\* range, then the second half from where the first half ended (the test
\* on totalLines, which never decreases, has the first half evaluated
\* before the second half starts)
RECURSIVE metricsLoop(_, _, _, _)
metricsLoop(files, lo, hi, acc) ==
    IF lo > hi
    THEN acc
    ELSE IF lo = hi
         THEN metricsOfFile(files[lo], acc)
         ELSE LET mid == (lo + hi) \div 2
                  first == metricsLoop(files, lo, mid, acc)
              IN  IF first.totalLines >= 0
                  THEN metricsLoop(files, mid + 1, hi, first)
                  ELSE first

\* codeComplexity is the quotient num / den
calculateBasicMetrics(codeFiles) ==
    LET r == metricsLoop(codeFiles, 1, Len(codeFiles),
                 [totalLines |-> 0, totalComplexity |-> 0,
                  lineHashes |-> <<>>, duplicateLines |-> 0])
    IN  [totalLines |-> r.totalLines,
         totalFiles |-> Len(codeFiles),
         codeComplexity |-> [num |-> r.totalComplexity,
                             den |-> Max(Len(codeFiles), 1)],
         duplicateLines |-> r.duplicateLines]

\* ------------------------------------------------------------------- scores
\* A score is a number of tenths, or NaN.

Tenths(t) == [nan |-> FALSE, tenths |-> t]
NaN == [nan |-> TRUE, tenths |-> 0]

\* Math.round(x * 10) / 10 of the non-negative rational x = n / d score
\* tenths: halves round up
roundTenths(n, d) == Tenths((2 * n + d) \div (2 * d))

\* calculateScores with a tenth taken off the quality score for every
\* suggestion
calculateScoresSuggestionsPenalised(metrics, issues) ==
    LET cd == metrics.codeComplexity.den
        u == cd * Max(metrics.totalLines, 1)
        complexityPenalty ==
            Min(metrics.codeComplexity.num * (u \div cd), 20 * u)
        duplicateNaN == metrics.totalLines = 0 /\ metrics.duplicateLines = 0
        duplicatePenalty ==
            IF metrics.totalLines = 0
            THEN 15 * u
            ELSE Min(50 * metrics.duplicateLines * cd, 15 * u)
        qualityScore ==
            Max(0, 100 * u
                   - (issues.critical * 20 + issues.major * 10 + issues.minor * 5
                      + issues.suggestions * 1) * u
                   - complexityPenalty - duplicatePenalty)
        securityScore ==
            Max(0, 100 * u - (issues.critical * 25 + issues.major * 12) * u)
        performanceScore ==
            Max(0, 100 * u - (issues.critical * 15 + issues.major * 8) * u)
        maintainabilityScore ==
            Max(0, 100 * u
                   - (issues.critical * 18 + issues.major * 9 + issues.minor * 3) * u
                   - complexityPenalty - duplicatePenalty)
        overallScore ==
            qualityScore * 30 + securityScore * 25
            + performanceScore * 25 + maintainabilityScore * 20
    IN  [overall |-> IF duplicateNaN THEN NaN ELSE roundTenths(overallScore, 100 * u),
         quality |-> IF duplicateNaN THEN NaN ELSE roundTenths(qualityScore, u),
         security |-> roundTenths(securityScore, u),
         performance |-> roundTenths(performanceScore, u),
         maintainability |->
             IF duplicateNaN THEN NaN ELSE roundTenths(maintainabilityScore, u)]

\* Scores are computed in tenths over the common denominator u of the
\* complexity quotient and the duplicate ratio.
calculateScores(metrics, issues) ==
    LET cd == metrics.codeComplexity.den
        u == cd * Max(metrics.totalLines, 1)
        \* Math.min(codeComplexity / 10, 2.0)
        complexityPenalty ==
            Min(metrics.codeComplexity.num * (u \div cd), 20 * u)
        \* duplicateLines / totalLines is NaN for 0 / 0 and Infinity for
        \* d / 0, d > 0; Math.min(NaN, 1.5) is NaN
        duplicateNaN == metrics.totalLines = 0 /\ metrics.duplicateLines = 0
        duplicatePenalty ==
            IF metrics.totalLines = 0
            THEN 15 * u
            ELSE Min(50 * metrics.duplicateLines * cd, 15 * u)
        qualityScore ==
            Max(0, 100 * u
                   - (issues.critical * 20 + issues.major * 10 + issues.minor * 5) * u
                   - complexityPenalty - duplicatePenalty)
        securityScore ==
            Max(0, 100 * u - (issues.critical * 25 + issues.major * 12) * u)
        performanceScore ==
            Max(0, 100 * u - (issues.critical * 15 + issues.major * 8) * u)
        maintainabilityScore ==
            Max(0, 100 * u
                   - (issues.critical * 18 + issues.major * 9 + issues.minor * 3) * u
                   - complexityPenalty - duplicatePenalty)
        \* in hundredths of a tenth
        overallScore ==
            qualityScore * 30 + securityScore * 25
            + performanceScore * 25 + maintainabilityScore * 20
    IN  [overall |-> IF duplicateNaN THEN NaN ELSE roundTenths(overallScore, 100 * u),
         quality |-> IF duplicateNaN THEN NaN ELSE roundTenths(qualityScore, u),
         security |-> roundTenths(securityScore, u),
         performance |-> roundTenths(performanceScore, u),
         maintainability |->
             IF duplicateNaN THEN NaN ELSE roundTenths(maintainabilityScore, u)]

\* ------------------------------------------------------------ the code summary
\* prepareCodeSummary builds the text of the files that goes into the
\* prompt of the inference request.

\* String(n) of a natural number, as a template literal prints it
RECURSIVE NatString(_)
NatString(n) ==
    IF n < 10 THEN <<Digit(n)>> ELSE NatString(n \div 10) \o <<Digit(n % 10)>>

\* parts.join(sep)
RECURSIVE join(_, _)
join(parts, sep) ==
    IF parts = <<>>
    THEN <<>>
    ELSE IF Len(parts) = 1
         THEN parts[1]
         ELSE parts[1] \o sep \o join(Tail(parts), sep)

\* the characters of file.language
languageText(language) ==
    CASE language = "javascript" -> <<"j", "a", "v", "a", "s", "c", "r", "i", "p", "t">>
      [] language = "typescript" -> <<"t", "y", "p", "e", "s", "c", "r", "i", "p", "t">>
      [] language = "python" -> <<"p", "y", "t", "h", "o", "n">>
      [] language = "java" -> <<"j", "a", "v", "a">>
      [] language = "go" -> <<"g", "o">>
      [] language = "ruby" -> <<"r", "u", "b", "y">>
      [] language = "php" -> <<"p", "h", "p">>
      [] language = "c" -> <<"c">>
      [] language = "cpp" -> <<"c", "p", "p">>
      [] language = "csharp" -> <<"c", "s", "h", "a", "r", "p">>
      [] language = "swift" -> <<"s", "w", "i", "f", "t">>
      [] language = "kotlin" -> <<"k", "o", "t", "l", "i", "n">>
      [] language = "rust" -> <<"r", "u", "s", "t">>
      [] language = "vue" -> <<"v", "u", "e">>
      [] language = "sql" -> <<"s", "q", "l">>
      [] language = "yaml" -> <<"y", "a", "m", "l">>
      [] OTHER -> <<"t", "e", "x", "t">>

\* the callback of codeFiles.slice(0, 20).map with lines.slice(0, n) for the
\* preview: header, preview, '...' for a file of more than 20 lines, '---'
filePreview(file, n) ==
    LET lines == split(file.content)
        preview == join(SubSeq(lines, 1, Min(n, Len(lines))), <<"\n">>)
    IN  <<"F", "i", "l", "e", ":", " ">> \o join(file.path, <<"/">>) \o <<" ", "(">>
        \o languageText(file.language) \o <<",", " ">> \o NatString(Len(lines))
        \o <<" ", "l", "i", "n", "e", "s", ")", "\n">> \o preview \o <<"\n">>
        \o (IF Len(lines) > 20 THEN <<".", ".", ".">> ELSE <<>>) \o <<"\n", "-", "-", "-">>

\* summary.length > 30000 ? summary.substring(0, 30000) + '...' : summary
cutSummary(summary) ==
    IF Len(summary) > 30000
    THEN SubSeq(summary, 1, 30000) \o <<".", ".", ".">>
    ELSE summary

\* prepareCodeSummary with every line of a file in its preview
prepareCodeSummaryAllLines(codeFiles) ==
    LET files == SubSeq(codeFiles, 1, Min(20, Len(codeFiles)))
    IN  cutSummary(join([k \in 1..Len(files) |->
                            filePreview(files[k], Len(files[k].content) + 1)],
                        <<"\n", "\n">>))

prepareCodeSummary(codeFiles) ==
    LET files == SubSeq(codeFiles, 1, Min(20, Len(codeFiles)))
    IN  cutSummary(join([k \in 1..Len(files) |-> filePreview(files[k], 20)],
                        <<"\n", "\n">>))

\* --------------------------------------------------------- semantic analysis
\* What the text-generation service answers to the one request of a run:
\* the request is rejected ("error"), the message has no content block
\* ("empty"), its first block is no text ("non_text"), the text is no JSON
\* ("invalid_json"), the JSON has no iterable issues ("no_issues"), or it
\* is the requested object with its list of issue types ("ok").

MaxIssues == 2

IssueTypes == {"critical", "major", "minor", "suggestion", "info"}

InferenceFailures == {"error", "empty", "non_text", "invalid_json", "no_issues"}

RECURSIVE IssueLists(_)
IssueLists(n) ==
    IF n = 0
    THEN {<<>>}
    ELSE LET shorter == IssueLists(n - 1)
         IN  shorter \cup {Append(l, t) : l \in {x \in shorter : Len(x) = n - 1},
                                          t \in IssueTypes}

Responses ==
    {[kind |-> k, issues |-> <<>>] : k \in InferenceFailures}
    \cup {[kind |-> "ok", issues |-> l] : l \in IssueLists(MaxIssues)}

NoResponse == [kind |-> "none", issues |-> <<>>]

\* the loop over analysisData.issues with its switch on issue.type
RECURSIVE countIssues(_, _)
countIssues(issues, issueCount) ==
    IF issues = <<>>
    THEN issueCount
    ELSE countIssues(Tail(issues),
             CASE Head(issues) = "critical" ->
                      [issueCount EXCEPT !.critical = @ + 1]
               [] Head(issues) = "major" ->
                      [issueCount EXCEPT !.major = @ + 1]
               [] Head(issues) = "minor" ->
                      [issueCount EXCEPT !.minor = @ + 1]
               [] Head(issues) = "suggestion" ->
                      [issueCount EXCEPT !.suggestions = @ + 1]
               [] OTHER -> issueCount)

NoIssues == [critical |-> 0, major |-> 0, minor |-> 0, suggestions |-> 0]

SevenEverywhere ==
    [overall |-> Tenths(70), quality |-> Tenths(70), security |-> Tenths(70),
     performance |-> Tenths(70), maintainability |-> Tenths(70)]

\* the value the catch block returns
fallbackAnalysis ==
    [issues |-> [critical |-> 0, major |-> 0, minor |-> 0, suggestions |-> 1],
     scores |-> SevenEverywhere,
     fallback |-> TRUE]

\* performAIAnalysis with the parsing and the tally after the try block:
\* what they throw reaches analyzeRepository
performAIAnalysisParseUncaught(response) ==
    IF response.kind \in {"invalid_json", "no_issues"}
    THEN [raised |-> TRUE, value |-> fallbackAnalysis]
    ELSE IF response.kind \in InferenceFailures
         THEN [raised |-> FALSE, value |-> fallbackAnalysis]
         ELSE [raised |-> FALSE,
               value |-> [issues |-> countIssues(response.issues, NoIssues),
                          scores |-> SevenEverywhere,
                          fallback |-> FALSE]]

\* performAIAnalysis as a function of the service's answer: everything from
\* the request to the tally runs inside the try block, so whatever throws
\* ends in the catch block
performAIAnalysis(response) ==
    IF response.kind \in InferenceFailures
    THEN [raised |-> FALSE, value |-> fallbackAnalysis]
    ELSE [raised |-> FALSE,
          value |-> [issues |-> countIssues(response.issues, NoIssues),
                     scores |-> SevenEverywhere,
                     fallback |-> FALSE]]

\* ------------------------------------------------------------------ the run

VARIABLES
    remote,           \* the tree the remote host serves (an index of Trees)
    prior,            \* 1 when the repository was analysed before, else 0
    analysisResults,  \* the AnalysisResult rows of the store
    lastAnalyzedAt,   \* the repository's lastAnalyzedAt, as a logical time
    pc,               \* the await or call analyzeRepository stands at
    latestCommit,
    stack,            \* the activations of traverseDirectory
    codeFiles,
    failedNodes,      \* the entries whose fetch failed (0: the root listing)
    calls,            \* the requests made so far, by kind
    metrics,
    aiResponse,       \* the answer of the text-generation service
    aiAnalysis,
    scores,
    analysisResult,   \* the id of the row this run created, 0 before
    raised,           \* the call whose error analyzeRepository rethrew
    returned,         \* the id analyzeRepository returned, 0 before
    codeSummary,      \* the code summary of the inference request
    \* the server around analyzeRepository
    subscriptions,    \* the Subscription row of each user
    requests,         \* the HTTP requests in flight or answered
    users,            \* the ids of the User rows
    organizations,    \* the Organization rows
    repositories,     \* the Repository rows
    runs,             \* the invocations of analyzeRepository of the server
    removed,          \* the AnalysisResult rows deleted so far
    nextId,           \* the id the store gives to its next AnalysisResult
    \* the calculator page
    calculator,       \* the fields of the one Calculator
    display,          \* the textContent of the display element
    timers,           \* the callbacks of showError's setTimeout not yet run
    key,              \* the key or button handled last ("timeout": a callback)
    result,           \* what the last handler's equals or performOperation
                      \* returned, TRUE after any other handler
    pressed,          \* the number of keys handled since the last reset
    chain             \* those keys, while they spell a chained calculation

\* the variables of one invocation of analyzeRepository
pipelineVars ==
    <<remote, prior, lastAnalyzedAt, pc, latestCommit, stack, codeFiles,
      failedNodes, calls, metrics, aiResponse, aiAnalysis, scores,
      analysisResult, raised, returned, codeSummary>>

serverVars ==
    <<subscriptions, requests, users, organizations, repositories, runs,
      removed, nextId>>

calculatorVars == <<calculator, display, timers, key, result, pressed, chain>>

vars == <<pipelineVars, analysisResults, serverVars, calculatorVars>>

\* no calculator and no page
NoCalculator ==
    /\ calculator = <<>>
    /\ display = <<>>
    /\ timers = 0
    /\ key = "none"
    /\ result = TRUE
    /\ pressed = 0
    /\ chain = <<>>

\* no server around the invocation
NoServer ==
    /\ subscriptions = <<>>
    /\ requests = <<>>
    /\ users = {}
    /\ organizations = {}
    /\ repositories = {}
    /\ runs = <<>>
    /\ removed = {}
    /\ nextId = 0

tree == Trees[remote]

NoMetrics ==
    [totalLines |-> 0, totalFiles |-> 0,
     codeComplexity |-> [num |-> 0, den |-> 1], duplicateLines |-> 0]

NoScores ==
    [overall |-> Tenths(0), quality |-> Tenths(0), security |-> Tenths(0),
     performance |-> Tenths(0), maintainability |-> Tenths(0)]

NoAnalysis == [issues |-> NoIssues, scores |-> NoScores, fallback |-> FALSE]

NoCalls ==
    [commits |-> 0, listings |-> 0, files |-> 0, inference |-> 0,
     creates |-> 0, updates |-> 0]

\* the rows of an earlier run for the same repository
PriorResults(p) ==
    IF p = 0
    THEN {}
    ELSE {[id |-> 1, repositoryId |-> "repo", commitSha |-> "sha0",
           triggeredBy |-> "webhook",
           scores |-> [overall |-> Tenths(84), quality |-> Tenths(80),
                       security |-> Tenths(90), performance |-> Tenths(85),
                       maintainability |-> Tenths(82)],
           metrics |-> [totalLines |-> 12, totalFiles |-> 2,
                        codeComplexity |-> [num |-> 3, den |-> 2],
                        duplicateLines |-> 1],
           issues |-> [critical |-> 0, major |-> 1, minor |-> 0, suggestions |-> 2],
           fallback |-> FALSE]}

Init ==
    /\ NoServer
    /\ NoCalculator
    /\ remote \in 1..Len(Trees)
    /\ prior \in {0, 1}
    /\ analysisResults = PriorResults(prior)
    /\ lastAnalyzedAt = prior
    /\ pc = "getLatestCommit"
    /\ latestCommit = "none"
    /\ stack = <<>>
    /\ codeFiles = <<>>
    /\ failedNodes = {}
    /\ calls = NoCalls
    /\ metrics = NoMetrics
    /\ aiResponse = NoResponse
    /\ aiAnalysis = NoAnalysis
    /\ scores = NoScores
    /\ analysisResult = 0
    /\ raised = "none"
    /\ returned = 0
    /\ codeSummary = <<>>

\* the catch block with the failed step entered again instead of the rethrow
RaiseAndRetry(call) ==
    /\ pc' = pc
    /\ raised' = call

\* analyzeRepository's catch block: log and rethrow
Raise(call) ==
    /\ pc' = "failed"
    /\ raised' = call

\* ---- getLatestCommit

GetLatestCommitOk ==
    /\ pc = "getLatestCommit"
    /\ latestCommit' = "sha1"
    /\ calls' = [calls EXCEPT !.commits = @ + 1]
    /\ pc' = "collectCodeFiles"
    /\ UNCHANGED <<calculatorVars, serverVars, codeSummary, remote, prior, analysisResults, lastAnalyzedAt, stack,
                   codeFiles, failedNodes, metrics, aiResponse, aiAnalysis,
                   scores, analysisResult, raised, returned>>

\* the failure of the commit request swallowed: the run goes on to the listing
GetLatestCommitFailSwallowed ==
    /\ pc = "getLatestCommit"
    /\ calls' = [calls EXCEPT !.commits = @ + 1]
    /\ raised' = "getLatestCommit"
    /\ pc' = "collectCodeFiles"
    /\ UNCHANGED <<calculatorVars, serverVars, codeSummary, remote, prior, analysisResults, lastAnalyzedAt, latestCommit,
                   stack, codeFiles, failedNodes, metrics, aiResponse,
                   aiAnalysis, scores, analysisResult, returned>>

\* the request fails, or the branch has no commit
GetLatestCommitFail ==
    /\ pc = "getLatestCommit"
    /\ calls' = [calls EXCEPT !.commits = @ + 1]
    /\ Raise("getLatestCommit")
    /\ UNCHANGED <<calculatorVars, serverVars, codeSummary, remote, prior, analysisResults, lastAnalyzedAt, latestCommit,
                   stack, codeFiles, failedNodes, metrics, aiResponse,
                   aiAnalysis, scores, analysisResult, returned>>

\* ---- collectCodeFiles

\* collectCodeFiles returns: analyzeRepository goes on with the metrics
CollectReturns(files) ==
    /\ codeFiles' = files
    /\ stack' = <<>>
    /\ pc' = "calculateBasicMetrics"

ListRootOk ==
    /\ pc = "collectCodeFiles"
    /\ calls' = [calls EXCEPT !.listings = @ + 1]
    /\ stack' = <<[currentPath |-> 0, contents |-> Listing(tree, 0), index |-> 1]>>
    /\ pc' = "traverseDirectory"
    /\ UNCHANGED <<calculatorVars, serverVars, codeSummary, remote, prior, analysisResults, lastAnalyzedAt, latestCommit,
                   codeFiles, failedNodes, metrics, aiResponse, aiAnalysis,
                   scores, analysisResult, raised, returned>>

\* the catch block of collectCodeFiles: log and return []
ListRootFail ==
    /\ pc = "collectCodeFiles"
    /\ calls' = [calls EXCEPT !.listings = @ + 1]
    /\ failedNodes' = failedNodes \cup {0}
    /\ CollectReturns(<<>>)
    /\ UNCHANGED <<calculatorVars, serverVars, codeSummary, remote, prior, analysisResults, lastAnalyzedAt, latestCommit,
                   metrics, aiResponse, aiAnalysis, scores, analysisResult,
                   raised, returned>>

\* ---- traverseDirectory

\* the guard with > for >=
reachedMaxFilesOffByOne(files) == Len(files) > maxFiles

\* codeFiles.length >= maxFiles
reachedMaxFiles(files) == Len(files) >= maxFiles

\* the test on item.path for item.name: it finds the denied names at the
\* root only
isIgnoredDirByPath(item) == item.path \in {<<d>> : d \in ignoredDirs}

\* ignoredDirs.has(item.name)
isIgnoredDir(item) == item.name \in ignoredDirs

\* the size test with <= for <
isSupportedFileInclusive(item) ==
    /\ substring(item.name, lastIndexOf(item.name, ".")) \in supportedExtensions
    /\ item.size <= maxFileSize

\* supportedExtensions.has(ext) && item.size < 100000
isSupportedFile(item) ==
    /\ substring(item.name, lastIndexOf(item.name, ".")) \in supportedExtensions
    /\ item.size < maxFileSize

top == stack[Len(stack)]

\* the entry the loop of the innermost activation stands at
current == top.contents[top.index]

\* the entry as the listing gives it, with what the remote host holds for it
Entry(t, k) ==
    [name |-> t[k].name, path |-> PathOf(t, k), type |-> t[k].type,
     size |-> t[k].size, content |-> t[k].content, flaky |-> t[k].flaky]

item == Entry(tree, current)

InLoop ==
    /\ pc = "traverseDirectory"
    /\ top.index <= Len(top.contents)
    /\ ~reachedMaxFiles(codeFiles)

\* the loop goes on with the next entry
Continue == [stack EXCEPT ![Len(stack)].index = @ + 1]

\* the loop ends, or the guard at the top of the function or of the loop
\* finds maxFiles files
ReturnFromDirectory ==
    /\ pc = "traverseDirectory"
    /\ top.index > Len(top.contents) \/ reachedMaxFiles(codeFiles)
    /\ IF Len(stack) = 1
       THEN CollectReturns(codeFiles)
       ELSE /\ stack' = SubSeq(stack, 1, Len(stack) - 1)
            /\ UNCHANGED <<codeFiles, pc>>
    /\ UNCHANGED <<calculatorVars, serverVars, codeSummary, remote, prior, analysisResults, lastAnalyzedAt, latestCommit,
                   failedNodes, calls, metrics, aiResponse, aiAnalysis, scores,
                   analysisResult, raised, returned>>

SkipIgnoredDir ==
    /\ InLoop
    /\ item.type = "dir"
    /\ isIgnoredDir(item)
    /\ stack' = Continue
    /\ UNCHANGED <<calculatorVars, serverVars, codeSummary, remote, prior, analysisResults, lastAnalyzedAt, pc,
                   latestCommit, codeFiles, failedNodes, calls, metrics,
                   aiResponse, aiAnalysis, scores, analysisResult, raised,
                   returned>>

ListDirOk ==
    /\ InLoop
    /\ item.type = "dir"
    /\ ~isIgnoredDir(item)
    /\ calls' = [calls EXCEPT !.listings = @ + 1]
    /\ stack' = Append(Continue,
                       [currentPath |-> current,
                        contents |-> Listing(tree, current),
                        index |-> 1])
    /\ UNCHANGED <<calculatorVars, serverVars, codeSummary, remote, prior, analysisResults, lastAnalyzedAt, pc,
                   latestCommit, codeFiles, failedNodes, metrics, aiResponse,
                   aiAnalysis, scores, analysisResult, raised, returned>>

\* catch: skip directories we can't access
ListDirFail ==
    /\ InLoop
    /\ item.type = "dir"
    /\ ~isIgnoredDir(item)
    /\ item.flaky
    /\ calls' = [calls EXCEPT !.listings = @ + 1]
    /\ failedNodes' = failedNodes \cup {current}
    /\ stack' = Continue
    /\ UNCHANGED <<calculatorVars, serverVars, codeSummary, remote, prior, analysisResults, lastAnalyzedAt, pc,
                   latestCommit, codeFiles, metrics, aiResponse, aiAnalysis,
                   scores, analysisResult, raised, returned>>

\* getFileContent throws when the file has no content
FetchFileOk ==
    /\ InLoop
    /\ item.type = "file"
    /\ isSupportedFile(item)
    /\ item.content # <<>>
    /\ calls' = [calls EXCEPT !.files = @ + 1]
    /\ codeFiles' = Append(codeFiles,
                           [path |-> item.path,
                            content |-> item.content,
                            language |-> detectLanguage(
                                substring(item.name, lastIndexOf(item.name, "."))),
                            size |-> item.size])
    /\ stack' = Continue
    /\ UNCHANGED <<calculatorVars, serverVars, codeSummary, remote, prior, analysisResults, lastAnalyzedAt, pc,
                   latestCommit, failedNodes, metrics, aiResponse, aiAnalysis,
                   scores, analysisResult, raised, returned>>

\* getFileContent without its own try block: the error ends the activation
\* and is caught around the recursive call of the parent directory, or, in
\* the root, by collectCodeFiles, which returns []
FetchFileFailUncaught ==
    /\ pc = "traverseDirectory"
    /\ top.index <= Len(top.contents)
    /\ ~reachedMaxFiles(codeFiles)
    /\ item.type = "file"
    /\ isSupportedFile(item)
    /\ item.flaky \/ item.content = <<>>
    /\ calls' = [calls EXCEPT !.files = @ + 1]
    /\ failedNodes' = failedNodes \cup {current}
    /\ IF Len(stack) = 1
       THEN CollectReturns(<<>>)
       ELSE /\ stack' = SubSeq(stack, 1, Len(stack) - 1)
            /\ UNCHANGED <<codeFiles, pc>>
    /\ UNCHANGED <<calculatorVars, serverVars, codeSummary, remote, prior, analysisResults, lastAnalyzedAt, latestCommit,
                   metrics, aiResponse, aiAnalysis, scores, analysisResult,
                   raised, returned>>

\* catch: skip files we can't read
FetchFileFail ==
    /\ InLoop
    /\ item.type = "file"
    /\ isSupportedFile(item)
    /\ item.flaky \/ item.content = <<>>
    /\ calls' = [calls EXCEPT !.files = @ + 1]
    /\ failedNodes' = failedNodes \cup {current}
    /\ stack' = Continue
    /\ UNCHANGED <<calculatorVars, serverVars, codeSummary, remote, prior, analysisResults, lastAnalyzedAt, pc,
                   latestCommit, codeFiles, metrics, aiResponse, aiAnalysis,
                   scores, analysisResult, raised, returned>>

SkipFile ==
    /\ InLoop
    /\ item.type = "file"
    /\ ~isSupportedFile(item)
    /\ stack' = Continue
    /\ UNCHANGED <<calculatorVars, serverVars, codeSummary, remote, prior, analysisResults, lastAnalyzedAt, pc,
                   latestCommit, codeFiles, failedNodes, calls, metrics,
                   aiResponse, aiAnalysis, scores, analysisResult, raised,
                   returned>>

\* an entry that is neither 'dir' nor 'file' (a symlink, a submodule)
SkipOtherType ==
    /\ InLoop
    /\ item.type \notin {"dir", "file"}
    /\ stack' = Continue
    /\ UNCHANGED <<calculatorVars, serverVars, codeSummary, remote, prior, analysisResults, lastAnalyzedAt, pc,
                   latestCommit, codeFiles, failedNodes, calls, metrics,
                   aiResponse, aiAnalysis, scores, analysisResult, raised,
                   returned>>

\* ---- metrics, inference, scores

CalculateBasicMetrics ==
    /\ pc = "calculateBasicMetrics"
    /\ metrics' = calculateBasicMetrics(codeFiles)
    /\ pc' = "performAIAnalysis"
    /\ UNCHANGED <<calculatorVars, serverVars, codeSummary, remote, prior, analysisResults, lastAnalyzedAt, latestCommit,
                   stack, codeFiles, failedNodes, calls, aiResponse, aiAnalysis,
                   scores, analysisResult, raised, returned>>

PerformAIAnalysis ==
    /\ pc = "performAIAnalysis"
    /\ \E response \in Responses :
          LET r == performAIAnalysis(response)
          IN  /\ aiResponse' = response
              /\ IF r.raised
                 THEN /\ Raise("performAIAnalysis")
                      /\ UNCHANGED aiAnalysis
                 ELSE /\ aiAnalysis' = r.value
                      /\ pc' = "calculateScores"
                      /\ UNCHANGED raised
    /\ codeSummary' = prepareCodeSummary(codeFiles)
    /\ calls' = [calls EXCEPT !.inference = @ + 1]
    /\ UNCHANGED <<calculatorVars, serverVars, remote, prior, analysisResults, lastAnalyzedAt, latestCommit,
                   stack, codeFiles, failedNodes, metrics, scores,
                   analysisResult, returned>>

CalculateScores ==
    /\ pc = "calculateScores"
    /\ scores' = calculateScores(metrics, aiAnalysis.issues)
    /\ pc' = "create"
    /\ UNCHANGED <<calculatorVars, serverVars, codeSummary, remote, prior, analysisResults, lastAnalyzedAt, latestCommit,
                   stack, codeFiles, failedNodes, calls, metrics, aiResponse,
                   aiAnalysis, analysisResult, raised, returned>>

\* ---- persistence

\* the data of prisma.analysisResult.create
newAnalysisResult(id) ==
    [id |-> id, repositoryId |-> "repo", commitSha |-> latestCommit,
     triggeredBy |-> "manual", scores |-> scores, metrics |-> metrics,
     issues |-> aiAnalysis.issues, fallback |-> aiAnalysis.fallback]

\* Whether the store takes a row whose scores are NaN is not decided by this
\* code: for every row the create may succeed (CreateOk) or throw
\* (CreateFail).
CreateOk ==
    /\ pc = "create"
    /\ calls' = [calls EXCEPT !.creates = @ + 1]
    /\ LET id == Cardinality(analysisResults) + 1
       IN  /\ analysisResults' = analysisResults \cup {newAnalysisResult(id)}
           /\ analysisResult' = id
    /\ pc' = "update"
    /\ UNCHANGED <<calculatorVars, serverVars, codeSummary, remote, prior, lastAnalyzedAt, latestCommit, stack, codeFiles,
                   failedNodes, metrics, aiResponse, aiAnalysis, scores, raised,
                   returned>>

CreateFail ==
    /\ pc = "create"
    /\ calls' = [calls EXCEPT !.creates = @ + 1]
    /\ Raise("create")
    /\ UNCHANGED <<calculatorVars, serverVars, codeSummary, remote, prior, analysisResults, lastAnalyzedAt, latestCommit,
                   stack, codeFiles, failedNodes, metrics, aiResponse,
                   aiAnalysis, scores, analysisResult, returned>>

\* the update with the id of the created row not returned
UpdateOkWithoutId ==
    /\ pc = "update"
    /\ calls' = [calls EXCEPT !.updates = @ + 1]
    /\ lastAnalyzedAt' = lastAnalyzedAt + 1
    /\ returned' = 0
    /\ pc' = "done"
    /\ UNCHANGED <<calculatorVars, serverVars, codeSummary, remote, prior, analysisResults, latestCommit, stack,
                   codeFiles, failedNodes, metrics, aiResponse, aiAnalysis,
                   scores, analysisResult, raised>>

UpdateOk ==
    /\ pc = "update"
    /\ calls' = [calls EXCEPT !.updates = @ + 1]
    /\ lastAnalyzedAt' = lastAnalyzedAt + 1
    /\ returned' = analysisResult
    /\ pc' = "done"
    /\ UNCHANGED <<calculatorVars, serverVars, codeSummary, remote, prior, analysisResults, latestCommit, stack,
                   codeFiles, failedNodes, metrics, aiResponse, aiAnalysis,
                   scores, analysisResult, raised>>

UpdateFail ==
    /\ pc = "update"
    /\ calls' = [calls EXCEPT !.updates = @ + 1]
    /\ Raise("update")
    /\ UNCHANGED <<calculatorVars, serverVars, codeSummary, remote, prior, analysisResults, lastAnalyzedAt, latestCommit,
                   stack, codeFiles, failedNodes, metrics, aiResponse,
                   aiAnalysis, scores, analysisResult, returned>>

Next ==
    \/ GetLatestCommitOk
    \/ GetLatestCommitFail
    \/ ListRootOk
    \/ ListRootFail
    \/ ReturnFromDirectory
    \/ SkipIgnoredDir
    \/ ListDirOk
    \/ ListDirFail
    \/ FetchFileOk
    \/ FetchFileFail
    \/ SkipFile
    \/ SkipOtherType
    \/ CalculateBasicMetrics
    \/ PerformAIAnalysis
    \/ CalculateScores
    \/ CreateOk
    \/ CreateFail
    \/ UpdateOk
    \/ UpdateFail

Spec == Init /\ [][Next]_vars

\* ------------------------------------------------ the score composer alone
\* calculateScores over the AnalysisMetrics calculateBasicMetrics can return
\* (no file: no line; at least one line per file; fewer repeated lines than
\* lines) and the IssueCounts a tally can give.

MaxTotalFiles == 2
MaxTotalLines == 4
MaxCritical == 5
MaxMajor == 2
MaxMinor == 2
MaxSuggestions == 1

\* totals of pattern matches: none, few, and enough for the 2.0 cap
ComplexityTotals == {0, 1, 15, 50}

MetricsInputs ==
    {NoMetrics}
    \cup {m \in {[totalLines |-> l, totalFiles |-> f,
                  codeComplexity |-> [num |-> c, den |-> f],
                  duplicateLines |-> d] :
                    f \in 1..MaxTotalFiles, l \in 1..MaxTotalLines,
                    c \in ComplexityTotals, d \in 0..MaxTotalLines} :
             m.totalLines >= m.totalFiles /\ m.duplicateLines < m.totalLines}

IssueInputs ==
    [critical : 0..MaxCritical, major : 0..MaxMajor, minor : 0..MaxMinor,
     suggestions : 0..MaxSuggestions]

InitScores ==
    /\ NoServer
    /\ NoCalculator
    /\ remote = 1
    /\ prior = 0
    /\ analysisResults = PriorResults(0)
    /\ lastAnalyzedAt = 0
    /\ pc = "calculateScores"
    /\ latestCommit = "sha1"
    /\ stack = <<>>
    /\ codeFiles = <<>>
    /\ failedNodes = {}
    /\ calls = NoCalls
    /\ metrics \in MetricsInputs
    /\ aiResponse = NoResponse
    /\ \E i \in IssueInputs :
          aiAnalysis = [issues |-> i, scores |-> SevenEverywhere, fallback |-> FALSE]
    /\ scores = NoScores
    /\ analysisResult = 0
    /\ raised = "none"
    /\ returned = 0
    /\ codeSummary = <<>>

NextScores == CalculateScores

SpecScores == InitScores /\ [][NextScores]_vars

\* --------------------------------------------------- the static metrics alone
\* calculateBasicMetrics over the file sequences collectCodeFiles can
\* return: up to MaxCodeFiles files, each with a content of SampleContents
\* (lines repeated within a file and across files, with and without
\* surrounding whitespace, of 10 and of 11 characters, with control
\* keywords).

MaxCodeFiles == 3

SampleContents ==
    {<<"c", "o", "n", "s", "t", " ", "t", "o", "t", "a", "l", " ", "=", " ", "0", ";", "\n", " ", " ", "c", "o", "n", "s", "t", " ", "t", "o", "t", "a", "l", " ", "=", " ", "0", ";", "\t", "\n", "x", " ", "=", " ", "1">>,
     <<"c", "o", "n", "s", "t", " ", "t", "o", "t", "a", "l", " ", "=", " ", "0", ";">>,
     <<"x", " ", "=", " ", "1", "\n", "x", " ", "=", " ", "1">>,
     <<"i", "f", " ", "(", "r", "e", "a", "d", "y", ")", " ", "{", " ", "g", "o", "(", ")", ";", " ", "}", "\n", "0", "1", "2", "3", "4", "5", "6", "7", "8", "9", "\n", " ", "0", "1", "2", "3", "4", "5", "6", "7", "8", "9", "0", " ">>,
     <<"0", "1", "2", "3", "4", "5", "6", "7", "8", "9", "0", "\n", "i", "f", " ", "(", "r", "e", "a", "d", "y", ")", " ", "{", " ", "g", "o", "(", ")", ";", " ", "}", "\n", "f", "o", "r", " ", "(", ";", ";", ")", " ", "{", "}">>}

\* the k-th file pushed by the traversal
CodeFileAt(k, content) ==
    [path |-> <<Numbered(<<"f">>, k, <<".", "t", "s">>)>>, content |-> content,
     language |-> detectLanguage(<<".", "t", "s">>), size |-> Len(content)]

CodeFileInputs ==
    UNION {{[k \in 1..n |-> CodeFileAt(k, contents[k])] :
               contents \in [1..n -> SampleContents]} : n \in 0..MaxCodeFiles}

InitMetrics ==
    /\ NoServer
    /\ NoCalculator
    /\ remote = 1
    /\ prior = 0
    /\ analysisResults = PriorResults(0)
    /\ lastAnalyzedAt = 0
    /\ pc = "calculateBasicMetrics"
    /\ latestCommit = "sha1"
    /\ stack = <<>>
    /\ codeFiles \in CodeFileInputs
    /\ failedNodes = {}
    /\ calls = NoCalls
    /\ metrics = NoMetrics
    /\ aiResponse = NoResponse
    /\ aiAnalysis = NoAnalysis
    /\ scores = NoScores
    /\ analysisResult = 0
    /\ raised = "none"
    /\ returned = 0
    /\ codeSummary = <<>>

NextMetrics == CalculateBasicMetrics

SpecMetrics == InitMetrics /\ [][NextMetrics]_vars

\* ------------------------------------------------------ the code summary alone
\* performAIAnalysis over the file sequences collectCodeFiles can return, of
\* sizes on both sides of prepareCodeSummary's three limits: up to
\* MaxSummaryFiles files of up to MaxFileLines lines of up to MaxLineWidth
\* characters.

MaxSummaryFiles == 21
MaxFileLines == 21
MaxLineWidth == 72

\* characters added to the first line of the first file: none, or what
\* brings 20 files of 20 lines of 71 characters to 30000 characters
Pads == {0, 282}

\* n characters c
Repeat(c, n) == [i \in 1..n |-> c]

\* file k of a sequence: lines of `width` characters, an "x" line for each of
\* the first 20 lines, a "y" line for the later ones, "z" lines in the files
\* after the 20th
SummaryFileAt(k, lineCount, width, pad) ==
    LET line(j) ==
            Repeat(IF k > 20 THEN "z" ELSE IF j > 20 THEN "y" ELSE "x",
                   width + (IF k = 1 /\ j = 1 THEN pad ELSE 0))
        content == join([j \in 1..lineCount |-> line(j)], <<"\n">>)
    IN  [path |-> <<<<"s", "r", "c">>, Numbered(<<"f">>, k, <<".", "t", "s">>)>>, content |-> content,
         language |-> detectLanguage(<<".", "t", "s">>), size |-> Len(content)]

SummaryInputs ==
    {<<>>}
    \cup {[k \in 1..n |-> SummaryFileAt(k, l, w, pad)] :
             n \in {1, MaxSummaryFiles - 1, MaxSummaryFiles},
             l \in {1, MaxFileLines - 1, MaxFileLines},
             w \in {1, MaxLineWidth - 1, MaxLineWidth},
             pad \in Pads}

InitSummary ==
    /\ NoServer
    /\ NoCalculator
    /\ remote = 1
    /\ prior = 0
    /\ analysisResults = PriorResults(0)
    /\ lastAnalyzedAt = 0
    /\ pc = "performAIAnalysis"
    /\ latestCommit = "sha1"
    /\ stack = <<>>
    /\ codeFiles \in SummaryInputs
    /\ failedNodes = {}
    /\ calls = NoCalls
    /\ metrics = calculateBasicMetrics(codeFiles)
    /\ aiResponse = NoResponse
    /\ aiAnalysis = NoAnalysis
    /\ scores = NoScores
    /\ analysisResult = 0
    /\ raised = "none"
    /\ returned = 0
    /\ codeSummary = <<>>

NextSummary == PerformAIAnalysis

SpecSummary == InitSummary /\ [][NextSummary]_vars

\* ------------------------------------------------------------- the server
\* The rows the route handlers and analyzeRepository share.  A repository
\* is created by POST /import only, with the importing user as userId and
\* no organization.

Users == {"u1", "u2"}

\* the limits handleCheckoutCompleted writes for a paid plan
planConfig ==
    [STARTER |-> [maxRepositories |-> 10, maxAnalysesPerMonth |-> 50],
     PROFESSIONAL |-> [maxRepositories |-> -1, maxAnalysesPerMonth |-> 500],
     ENTERPRISE |-> [maxRepositories |-> -1, maxAnalysesPerMonth |-> -1]]

\* the Subscription row upserted by handleCheckoutCompleted, with the usage
\* counted since
PaidSubscription(plan, repositoriesUsed, analysesThisMonth) ==
    [status |-> "ACTIVE", plan |-> plan,
     maxRepositories |-> planConfig[plan].maxRepositories,
     maxAnalysesPerMonth |-> planConfig[plan].maxAnalysesPerMonth,
     repositoriesUsed |-> repositoriesUsed,
     analysesThisMonth |-> analysesThisMonth]

\* the Subscription row created with a new user
FreeSubscription(repositoriesUsed, analysesThisMonth) ==
    [status |-> "ACTIVE", plan |-> "FREE",
     maxRepositories |-> 3, maxAnalysesPerMonth |-> 10,
     repositoriesUsed |-> repositoriesUsed,
     analysesThisMonth |-> analysesThisMonth]

\* no row: findFirst gives null
NoSubscription == [status |-> "NONE"]

\* no invocation of the pipeline of Spec is under way
NoPipeline ==
    /\ remote = 1
    /\ prior = 0
    /\ lastAnalyzedAt = 0
    /\ pc = "idle"
    /\ latestCommit = "none"
    /\ stack = <<>>
    /\ codeFiles = <<>>
    /\ failedNodes = {}
    /\ calls = NoCalls
    /\ metrics = NoMetrics
    /\ aiResponse = NoResponse
    /\ aiAnalysis = NoAnalysis
    /\ scores = NoScores
    /\ analysisResult = 0
    /\ raised = "none"
    /\ returned = 0
    /\ codeSummary = <<>>

\* subscription.updateMany({where: {userId}, data: {field: {increment: by}}}):
\* no row, no change
updateMany(userId, field, by) ==
    [u \in DOMAIN subscriptions |->
        IF u = userId /\ subscriptions[u] # NoSubscription
        THEN [subscriptions[u] EXCEPT ![field] = @ + by]
        ELSE subscriptions[u]]

\* ---------------------------------------------- the store of analysis results
\* Invocations of analyzeRepository next to the handlers that delete rows:
\* DELETE /:id of routes/repositories.ts, DELETE /account and DELETE /:orgId
\* of routes/organizations.ts.  An invocation is followed from its call to
\* its two writes; what it computes in between is in Spec.

\* the invocations and the requests a behaviour may hold, together
MaxCalls == 2

MayCall == Len(runs) + Len(requests) < MaxCalls

\* overall scores a run may have computed
OverallSamples == {Tenths(61), Tenths(100)}

RepositoryIds == {r.id : r \in repositories}

RepositoryRow(id) == CHOOSE r \in repositories : r.id = id

\* the data of prisma.analysisResult.create of run k
storedAnalysisResult(id, k, overall) ==
    [id |-> id, repositoryId |-> runs[k].repositoryId,
     userId |-> runs[k].userId, commitSha |-> "sha1", branch |-> "main",
     triggeredBy |-> runs[k].triggeredBy, overall |-> overall]

InitStore ==
    /\ NoPipeline
    /\ NoCalculator
    /\ users = Users
    /\ subscriptions = [u \in Users |-> PaidSubscription("STARTER", 1, 1)]
    /\ organizations = {[id |-> "o1", ownerId |-> "u2"]}
    /\ repositories =
           {[id |-> "r1", userId |-> "u1", organizationId |-> "none",
             lastAnalyzedAt |-> 1],
            [id |-> "r2", userId |-> "u2", organizationId |-> "none",
             lastAnalyzedAt |-> 0]}
    /\ analysisResults =
           {[id |-> 1, repositoryId |-> "r1", userId |-> "u1",
             commitSha |-> "sha1", branch |-> "main",
             triggeredBy |-> "manual", overall |-> Tenths(61)]}
    /\ removed = {}
    /\ nextId = 2
    /\ runs = <<>>
    /\ requests = <<>>

\* analyzeRepository(repository, token, options) is called: by the manual
\* trigger for a repository the requesting user owns, with that user's id,
\* and by the push and pull-request handlers with the owner's id
analyzeRepositoryCalled ==
    /\ MayCall
    /\ \E r \in repositories, triggeredBy \in {"manual", "webhook"} :
          /\ r.userId \in users
          /\ runs' = Append(runs, [repositoryId |-> r.id, userId |-> r.userId,
                                   triggeredBy |-> triggeredBy,
                                   pc |-> "create", analysisResult |-> 0])
    /\ UNCHANGED <<calculatorVars, pipelineVars, analysisResults, subscriptions, requests,
                   users, organizations, repositories, removed, nextId>>

\* the create with the row written over the newest row of the same
\* repository, commit and branch, when there is one
RunCreateOkReplacingRerun(k) ==
    /\ runs[k].pc = "create"
    /\ \E overall \in OverallSamples :
          LET row == storedAnalysisResult(nextId, k, overall)
              same == {s \in analysisResults :
                          /\ s.repositoryId = row.repositoryId
                          /\ s.commitSha = row.commitSha
                          /\ s.branch = row.branch}
          IN  IF same = {}
              THEN /\ analysisResults' = analysisResults \cup {row}
                   /\ runs' = [runs EXCEPT ![k].pc = "update",
                                           ![k].analysisResult = nextId]
              ELSE LET old == CHOOSE s \in same : \A t \in same : t.id <= s.id
                   IN  /\ analysisResults' =
                              (analysisResults \ {old})
                              \cup {[row EXCEPT !.id = old.id]}
                       /\ runs' = [runs EXCEPT ![k].pc = "update",
                                               ![k].analysisResult = old.id]
    /\ nextId' = nextId + 1
    /\ UNCHANGED <<calculatorVars, pipelineVars, subscriptions, requests, users,
                   organizations, repositories, removed>>

\* prisma.analysisResult.create of run k.  Whether the store takes a row
\* whose repository or user is gone is not decided by this code: the create
\* may succeed or throw (RunCreateFail).
RunCreateOk(k) ==
    /\ runs[k].pc = "create"
    /\ \E overall \in OverallSamples :
          analysisResults' =
              analysisResults \cup {storedAnalysisResult(nextId, k, overall)}
    /\ runs' = [runs EXCEPT ![k].pc = "update", ![k].analysisResult = nextId]
    /\ nextId' = nextId + 1
    /\ UNCHANGED <<calculatorVars, pipelineVars, subscriptions, requests, users,
                   organizations, repositories, removed>>

\* the run raises without a row: getLatestCommit or the create throws
RunCreateFail(k) ==
    /\ runs[k].pc = "create"
    /\ runs' = [runs EXCEPT ![k].pc = "failed"]
    /\ UNCHANGED <<calculatorVars, pipelineVars, analysisResults, subscriptions, requests,
                   users, organizations, repositories, removed, nextId>>

\* prisma.repository.update of lastAnalyzedAt, of a row that exists
RunUpdateOk(k) ==
    /\ runs[k].pc = "update"
    /\ runs[k].repositoryId \in RepositoryIds
    /\ LET r == RepositoryRow(runs[k].repositoryId)
       IN  repositories' =
               (repositories \ {r})
               \cup {[r EXCEPT !.lastAnalyzedAt = r.lastAnalyzedAt + 1]}
    /\ runs' = [runs EXCEPT ![k].pc = "done"]
    /\ UNCHANGED <<calculatorVars, pipelineVars, analysisResults, subscriptions, requests,
                   users, organizations, removed, nextId>>

\* the update throws: the row is gone, or the store fails
RunUpdateFail(k) ==
    /\ runs[k].pc = "update"
    /\ runs' = [runs EXCEPT ![k].pc = "failed"]
    /\ UNCHANGED <<calculatorVars, pipelineVars, analysisResults, subscriptions, requests,
                   users, organizations, repositories, removed, nextId>>

\* res.status(status).json(...) of request q
Answered(q, status) ==
    [requests EXCEPT ![q].pc = "answered", ![q].status = status]

\* DELETE /:id by userId: findFirst of a repository this user owns; none
\* found is thrown and answered 500 by the catch
DeleteRepositoryFind ==
    /\ MayCall
    /\ \E userId \in users, id \in {"r1", "r2"} :
          LET found == \E r \in repositories : r.id = id /\ r.userId = userId
          IN  requests' =
                  Append(requests,
                         [endpoint |-> "DELETE /:id", userId |-> userId,
                          id |-> id,
                          pc |-> IF found THEN "deleteMany" ELSE "answered",
                          status |-> IF found THEN 0 ELSE 500])
    /\ UNCHANGED <<calculatorVars, pipelineVars, analysisResults, subscriptions, users,
                   organizations, repositories, runs, removed, nextId>>

\* prisma.analysisResult.deleteMany({where: {repositoryId}})
DeleteRepositoryResults(q) ==
    /\ requests[q].endpoint = "DELETE /:id"
    /\ requests[q].pc = "deleteMany"
    /\ LET rows == {a \in analysisResults : a.repositoryId = requests[q].id}
       IN  /\ analysisResults' = analysisResults \ rows
           /\ removed' = removed \cup rows
    /\ requests' = [requests EXCEPT ![q].pc = "delete"]
    /\ UNCHANGED <<calculatorVars, pipelineVars, subscriptions, users, organizations,
                   repositories, runs, nextId>>

\* the rows that go with a deleted repository: the cascade of the schema
cascade(ids) == {a \in analysisResults : a.repositoryId \in ids}

\* prisma.repository.delete({where: {id}}) of a row that exists
DeleteRepositoryRow(q) ==
    /\ requests[q].endpoint = "DELETE /:id"
    /\ requests[q].pc = "delete"
    /\ requests[q].id \in RepositoryIds
    /\ repositories' = repositories \ {RepositoryRow(requests[q].id)}
    /\ analysisResults' = analysisResults \ cascade({requests[q].id})
    /\ removed' = removed \cup cascade({requests[q].id})
    /\ requests' = [requests EXCEPT ![q].pc = "updateMany"]
    /\ UNCHANGED <<calculatorVars, pipelineVars, subscriptions, users, organizations, runs,
                   nextId>>

\* the decrement of repositoriesUsed and the answer
DeleteRepositoryCounted(q) ==
    /\ requests[q].endpoint = "DELETE /:id"
    /\ requests[q].pc = "updateMany"
    /\ subscriptions' = updateMany(requests[q].userId, "repositoriesUsed", -1)
    /\ requests' = Answered(q, 200)
    /\ UNCHANGED <<calculatorVars, pipelineVars, analysisResults, users, organizations,
                   repositories, runs, removed, nextId>>

\* the awaited call the handler stands at throws (for the delete: the row
\* is gone, or the store fails): the catch answers 500 and nothing written
\* before is undone
DeleteRepositoryThrows(q) ==
    /\ requests[q].endpoint = "DELETE /:id"
    /\ requests[q].pc \in {"deleteMany", "delete", "updateMany"}
    /\ requests' = Answered(q, 500)
    /\ UNCHANGED <<calculatorVars, pipelineVars, analysisResults, subscriptions, users,
                   organizations, repositories, runs, removed, nextId>>

\* DELETE /account by userId with the matching email: one transaction
\* deletes the user's analysis results, repositories, subscription and row
DeleteAccount ==
    /\ MayCall
    /\ \E userId \in users :
          LET own == {r \in repositories : r.userId = userId}
              rows == {a \in analysisResults : a.userId = userId}
                      \cup cascade({r.id : r \in own})
          IN  /\ analysisResults' = analysisResults \ rows
              /\ removed' = removed \cup rows
              /\ repositories' = repositories \ own
              /\ subscriptions' =
                     [subscriptions EXCEPT ![userId] = NoSubscription]
              /\ users' = users \ {userId}
              /\ requests' =
                     Append(requests,
                            [endpoint |-> "DELETE /account",
                             userId |-> userId, id |-> userId,
                             pc |-> "answered", status |-> 200])
    /\ UNCHANGED <<calculatorVars, pipelineVars, organizations, runs, nextId>>

\* the email does not match, or the transaction throws and is rolled back
DeleteAccountThrows ==
    /\ MayCall
    /\ \E userId \in users :
          requests' =
              Append(requests,
                     [endpoint |-> "DELETE /account", userId |-> userId,
                      id |-> userId, pc |-> "answered", status |-> 500])
    /\ UNCHANGED <<calculatorVars, pipelineVars, analysisResults, subscriptions, users,
                   organizations, repositories, runs, removed, nextId>>

\* DELETE /:orgId by the owner: one transaction deletes the members, the
\* repositories of the organization and the organization; by anyone else,
\* or when the transaction throws, the catch answers 500
DeleteOrganization ==
    /\ MayCall
    /\ \E userId \in users, orgId \in {"o1"} :
          LET found == \E o \in organizations :
                           o.id = orgId /\ o.ownerId = userId
              own == {r \in repositories : r.organizationId = orgId}
          IN  \E ok \in IF found THEN BOOLEAN ELSE {FALSE} :
                 /\ IF ok
                    THEN /\ repositories' = repositories \ own
                         /\ analysisResults' =
                                analysisResults \ cascade({r.id : r \in own})
                         /\ removed' =
                                removed \cup cascade({r.id : r \in own})
                         /\ organizations' =
                                {o \in organizations : o.id # orgId}
                    ELSE UNCHANGED <<repositories, analysisResults, removed,
                                     organizations>>
                 /\ requests' =
                        Append(requests,
                               [endpoint |-> "DELETE /:orgId",
                                userId |-> userId, id |-> orgId,
                                pc |-> "answered",
                                status |-> IF ok THEN 200 ELSE 500])
    /\ UNCHANGED <<calculatorVars, pipelineVars, subscriptions, users, runs, nextId>>

NextStore ==
    \/ analyzeRepositoryCalled
    \/ \E k \in DOMAIN runs : RunCreateOk(k)
    \/ \E k \in DOMAIN runs : RunCreateFail(k)
    \/ \E k \in DOMAIN runs : RunUpdateOk(k)
    \/ \E k \in DOMAIN runs : RunUpdateFail(k)
    \/ DeleteRepositoryFind
    \/ \E q \in DOMAIN requests : DeleteRepositoryResults(q)
    \/ \E q \in DOMAIN requests : DeleteRepositoryRow(q)
    \/ \E q \in DOMAIN requests : DeleteRepositoryCounted(q)
    \/ \E q \in DOMAIN requests : DeleteRepositoryThrows(q)
    \/ DeleteAccount
    \/ DeleteAccountThrows
    \/ DeleteOrganization

SpecStore == InitStore /\ [][NextStore]_vars

\* ------------------------------------------------- the subscription endpoints
\* POST /:id/analyze and POST /import of routes/repositories.ts behind
\* authenticateToken, requireSubscription and checkUsageLimit, for requests
\* of one user that are served concurrently: a request stands at an await
\* of its middleware or handler, and the analysis it launched is a promise
\* that settles on its own.

\* usage counts next to a limit: none, one below, at the limit; for no
\* limit (-1): none and one
UsageSamples(max) == IF max < 0 THEN {0, 1} ELSE {0, max - 1, max}

\* a Subscription row with its usage counted up
WithUsage(row) ==
    {[row EXCEPT !.repositoriesUsed = r, !.analysesThisMonth = a] :
        r \in UsageSamples(row.maxRepositories),
        a \in UsageSamples(row.maxAnalysesPerMonth)}

\* the Subscription rows a user can have: none, the free one, a paid plan,
\* a cancelled plan (handleSubscriptionDeleted)
SubscriptionInputs ==
    {NoSubscription}
    \cup WithUsage(FreeSubscription(0, 0))
    \cup {[row EXCEPT !.status = "CANCELED"] :
              row \in WithUsage(FreeSubscription(0, 0))}
    \cup UNION {WithUsage(PaidSubscription(plan, 0, 0)) :
                   plan \in DOMAIN planConfig}

\* findFirst({where: {userId, status: 'ACTIVE'}}) and the test on it: the
\* row to put on the request, or none when the request is refused
requireSubscription(userId) ==
    LET subscription ==
            IF subscriptions[userId].status = "ACTIVE"
            THEN subscriptions[userId]
            ELSE NoSubscription
    IN  IF subscription = NoSubscription \/ subscription.plan = "FREE"
        THEN NoSubscription
        ELSE subscription

\* checkUsageLimit(limitType) on req.subscription: the error it hands to
\* next, or status 0 for next()
checkUsageLimit(limitType, subscription) ==
    IF subscription = NoSubscription
    THEN [status |-> 400, error |-> "Subscription information not found"]
    ELSE IF /\ limitType = "repositories"
            /\ subscription.repositoriesUsed >= subscription.maxRepositories
         THEN [status |-> 403, error |-> "Repository limit exceeded"]
         ELSE IF /\ limitType = "analyses"
                 /\ subscription.analysesThisMonth
                        >= subscription.maxAnalysesPerMonth
              THEN [status |-> 403, error |-> "Monthly analysis limit exceeded"]
              ELSE [status |-> 0, error |-> "none"]

\* the limit type each endpoint passes to checkUsageLimit
limitTypeOf(endpoint) ==
    IF endpoint = "POST /import" THEN "repositories" ELSE "analyses"

InitTrigger ==
    /\ NoPipeline
    /\ NoCalculator
    /\ analysisResults = {}
    /\ users = {"u1"}
    /\ subscriptions \in [{"u1"} -> SubscriptionInputs]
    /\ organizations = {}
    /\ repositories = {}
    /\ removed = {}
    /\ nextId = 1
    /\ runs = <<>>
    /\ requests = <<>>

\* the request answered with an error
Refused(q, status, error) ==
    [requests EXCEPT ![q].pc = "answered", ![q].status = status,
                     ![q].body = error]

\* a request of user u1 arrives and authenticateToken lets it pass
Arrive ==
    /\ MayCall
    /\ \E endpoint \in {"POST /:id/analyze", "POST /import"} :
          requests' =
              Append(requests,
                     [endpoint |-> endpoint, userId |-> "u1",
                      pc |-> "requireSubscription",
                      subscription |-> NoSubscription,
                      status |-> 0, body |-> "none",
                      run |-> "none", handled |-> FALSE, logged |-> <<>>])
    /\ UNCHANGED <<calculatorVars, pipelineVars, analysisResults, subscriptions, users,
                   organizations, repositories, runs, removed, nextId>>

RequireSubscription(q) ==
    /\ requests[q].pc = "requireSubscription"
    /\ LET subscription == requireSubscription(requests[q].userId)
       IN  requests' =
               IF subscription = NoSubscription
               THEN Refused(q, 403, "Active subscription required")
               ELSE [requests EXCEPT ![q].pc = "checkUsageLimit",
                                     ![q].subscription = subscription]
    /\ UNCHANGED <<calculatorVars, pipelineVars, analysisResults, subscriptions, users,
                   organizations, repositories, runs, removed, nextId>>

CheckUsageLimit(q) ==
    /\ requests[q].pc = "checkUsageLimit"
    /\ LET error == checkUsageLimit(limitTypeOf(requests[q].endpoint),
                                    requests[q].subscription)
       IN  requests' =
               IF error.status # 0
               THEN Refused(q, error.status, error.error)
               ELSE [requests EXCEPT ![q].pc = "handler"]
    /\ UNCHANGED <<calculatorVars, pipelineVars, analysisResults, subscriptions, users,
                   organizations, repositories, runs, removed, nextId>>

\* POST /:id/analyze up to the call of analyzeRepository: the repository
\* and the token are found and the service is constructed, then the
\* analysis is started and not awaited; or one of these throws and the
\* catch answers 500
AnalyzeLaunch(q) ==
    /\ requests[q].endpoint = "POST /:id/analyze"
    /\ requests[q].pc = "handler"
    /\ \E ok \in BOOLEAN :
          requests' =
              IF ok
              THEN [requests EXCEPT ![q].pc = "updateMany",
                                    ![q].run = "pending"]
              ELSE Refused(q, 500, "Failed to start analysis")
    /\ UNCHANGED <<calculatorVars, pipelineVars, analysisResults, subscriptions, users,
                   organizations, repositories, runs, removed, nextId>>

\* await prisma.subscription.updateMany({analysesThisMonth: {increment: 1}})
AnalyzeCount(q) ==
    /\ requests[q].endpoint = "POST /:id/analyze"
    /\ requests[q].pc = "updateMany"
    /\ subscriptions' = updateMany(requests[q].userId, "analysesThisMonth", 1)
    /\ requests' = [requests EXCEPT ![q].pc = "respond"]
    /\ UNCHANGED <<calculatorVars, pipelineVars, analysisResults, users, organizations,
                   repositories, runs, removed, nextId>>

\* the updateMany throws: the catch answers 500
AnalyzeCountThrows(q) ==
    /\ requests[q].endpoint = "POST /:id/analyze"
    /\ requests[q].pc = "updateMany"
    /\ requests' = Refused(q, 500, "Failed to start analysis")
    /\ UNCHANGED <<calculatorVars, pipelineVars, analysisResults, subscriptions, users,
                   organizations, repositories, runs, removed, nextId>>

\* the handler with the analysis awaited before the answer
AnalyzeRespondAfterRun(q) ==
    /\ requests[q].endpoint = "POST /:id/analyze"
    /\ requests[q].pc = "respond"
    /\ requests[q].run # "pending"
    /\ requests' =
           [requests EXCEPT
               ![q].pc = "answered",
               ![q].status = IF requests[q].run = "rejected" THEN 500 ELSE 200,
               ![q].body = IF requests[q].run = "rejected"
                           THEN "Failed to start analysis"
                           ELSE "completed",
               ![q].handled = TRUE]
    /\ UNCHANGED <<calculatorVars, pipelineVars, analysisResults, subscriptions, users,
                   organizations, repositories, runs, removed, nextId>>

\* res.json({status: 'processing', ...}), then analysisPromise.catch: the
\* callback of a promise rejected before logs as soon as it is attached
AnalyzeRespond(q) ==
    /\ requests[q].endpoint = "POST /:id/analyze"
    /\ requests[q].pc = "respond"
    /\ requests' =
           [requests EXCEPT
               ![q].pc = "answered",
               ![q].status = 200,
               ![q].body = "processing",
               ![q].handled = TRUE,
               ![q].logged = IF requests[q].run = "rejected"
                             THEN Append(@, "Analysis failed")
                             ELSE @]
    /\ UNCHANGED <<calculatorVars, pipelineVars, analysisResults, subscriptions, users,
                   organizations, repositories, runs, removed, nextId>>

\* the promise of analyzeRepository is fulfilled
RunFulfils(q) ==
    /\ requests[q].run = "pending"
    /\ requests' = [requests EXCEPT ![q].run = "fulfilled"]
    /\ UNCHANGED <<calculatorVars, pipelineVars, analysisResults, subscriptions, users,
                   organizations, repositories, runs, removed, nextId>>

\* the promise is rejected: the callback, if attached, logs
RunRejects(q) ==
    /\ requests[q].run = "pending"
    /\ requests' =
           [requests EXCEPT
               ![q].run = "rejected",
               ![q].logged = IF requests[q].handled
                             THEN Append(@, "Analysis failed")
                             ELSE @]
    /\ UNCHANGED <<calculatorVars, pipelineVars, analysisResults, subscriptions, users,
                   organizations, repositories, runs, removed, nextId>>

\* POST /import up to prisma.repository.create: the row is created, or the
\* repository was imported before (409), or a lookup throws (500)
ImportCreate(q) ==
    /\ requests[q].endpoint = "POST /import"
    /\ requests[q].pc = "handler"
    /\ \E outcome \in {"created", "conflict", "error"} :
          IF outcome = "created"
          THEN /\ repositories' =
                      repositories
                      \cup {[id |-> Cardinality(repositories) + 1,
                             userId |-> requests[q].userId,
                             organizationId |-> "none",
                             lastAnalyzedAt |-> 0]}
               /\ requests' = [requests EXCEPT ![q].pc = "updateMany"]
          ELSE /\ repositories' = repositories
               /\ requests' =
                      IF outcome = "conflict"
                      THEN Refused(q, 409, "Repository already imported")
                      ELSE Refused(q, 500, "Failed to import repository")
    /\ UNCHANGED <<calculatorVars, pipelineVars, analysisResults, subscriptions, users,
                   organizations, runs, removed, nextId>>

\* await prisma.subscription.updateMany({repositoriesUsed: {increment: 1}})
ImportCount(q) ==
    /\ requests[q].endpoint = "POST /import"
    /\ requests[q].pc = "updateMany"
    /\ subscriptions' = updateMany(requests[q].userId, "repositoriesUsed", 1)
    /\ requests' = [requests EXCEPT ![q].pc = "respond"]
    /\ UNCHANGED <<calculatorVars, pipelineVars, analysisResults, users, organizations,
                   repositories, runs, removed, nextId>>

ImportCountThrows(q) ==
    /\ requests[q].endpoint = "POST /import"
    /\ requests[q].pc = "updateMany"
    /\ requests' = Refused(q, 500, "Failed to import repository")
    /\ UNCHANGED <<calculatorVars, pipelineVars, analysisResults, subscriptions, users,
                   organizations, repositories, runs, removed, nextId>>

\* res.status(201).json({repository})
ImportRespond(q) ==
    /\ requests[q].endpoint = "POST /import"
    /\ requests[q].pc = "respond"
    /\ requests' = [requests EXCEPT ![q].pc = "answered", ![q].status = 201,
                                    ![q].body = "repository"]
    /\ UNCHANGED <<calculatorVars, pipelineVars, analysisResults, subscriptions, users,
                   organizations, repositories, runs, removed, nextId>>

NextTrigger ==
    \/ Arrive
    \/ \E q \in DOMAIN requests : RequireSubscription(q)
    \/ \E q \in DOMAIN requests : CheckUsageLimit(q)
    \/ \E q \in DOMAIN requests : AnalyzeLaunch(q)
    \/ \E q \in DOMAIN requests : AnalyzeCount(q)
    \/ \E q \in DOMAIN requests : AnalyzeCountThrows(q)
    \/ \E q \in DOMAIN requests : AnalyzeRespond(q)
    \/ \E q \in DOMAIN requests : RunFulfils(q)
    \/ \E q \in DOMAIN requests : RunRejects(q)
    \/ \E q \in DOMAIN requests : ImportCreate(q)
    \/ \E q \in DOMAIN requests : ImportCount(q)
    \/ \E q \in DOMAIN requests : ImportCountThrows(q)
    \/ \E q \in DOMAIN requests : ImportRespond(q)

SpecTrigger == InitTrigger /\ [][NextTrigger]_vars

\* ------------------------------------------------------------ the calculator
\* Calculator (unnamed/part_005) under CalculatorUI (src/ui.js): the keys
\* and buttons of the page call the handlers of the UI, which call the
\* methods of the one Calculator and write the display; a failed calculation
\* arms a timer that resets the calculator.
\*
\* A number is the decimal m / 10^s, with m not divisible by 10 unless
\* s = 0.  The arithmetic is exact: the rounding of binary floating point is
\* not modelled, and a calculation is followed only when its result is a
\* decimal of at most MaxMantissa in its digits and MaxScale decimal places
\* that Number.prototype.toString prints without an exponent, in at most 12
\* characters (the display's plain format).

MaxKeys == 6
MaxTimers == 2
MaxMantissa == 100000000
MaxScale == 8

DigitKeys == {"0", "5"}

OperationKeys == {"add", "subtract", "multiply", "divide"}

Abs(x) == IF x < 0 THEN -x ELSE x

RECURSIVE Pow10(_)
Pow10(n) == IF n <= 0 THEN 1 ELSE 10 * Pow10(n - 1)

RECURSIVE normalise(_, _)
normalise(m, s) ==
    IF s > 0 /\ m % 10 = 0 THEN normalise(m \div 10, s - 1) ELSE [m |-> m, s |-> s]

Zero == [m |-> 0, s |-> 0]

\* the empty string previousValue holds while no operand is stored
Empty == [empty |-> TRUE]

\* the null calculate returns for a division by zero
Null == [null |-> TRUE]

\* a quotient without a finite decimal expansion within MaxMantissa
Inexact == [inexact |-> TRUE]

\* str.indexOf(c), 1-based; 0 when c does not occur (-1 in the code)
indexOf(str, c) ==
    LET hits == {i \in 1..Len(str) : str[i] = c}
    IN  IF hits = {} THEN 0 ELSE CHOOSE i \in hits : \A j \in hits : i <= j

DigitValue(c) == CHOOSE d \in 0..9 : Digit(d) = c

RECURSIVE NatOf(_)
NatOf(digits) ==
    IF digits = <<>>
    THEN 0
    ELSE 10 * NatOf(SubSeq(digits, 1, Len(digits) - 1))
         + DigitValue(digits[Len(digits)])

\* parseFloat of an entry or of a printed number: sign, digits, point,
\* digits, up to the first character that cannot continue the number
parseFloat(str) ==
    LET negative == str # <<>> /\ str[1] = "-"
        body == IF negative THEN Tail(str) ELSE str
        point == indexOf(body, ".")
        whole == IF point = 0 THEN body ELSE SubSeq(body, 1, point - 1)
        rest == IF point = 0 THEN <<>> ELSE SubSeq(body, point + 1, Len(body))
        stop == indexOf(rest, ".")
        fraction == IF stop = 0 THEN rest ELSE SubSeq(rest, 1, stop - 1)
        m == NatOf(whole \o fraction)
    IN  normalise(IF negative THEN -m ELSE m, Len(fraction))

\* String(value) of a number printed without an exponent
String(value) ==
    LET digits == NatString(Abs(value.m))
        padded == Repeat("0", value.s + 1 - Len(digits)) \o digits
        whole == SubSeq(padded, 1, Len(padded) - value.s)
        fraction == SubSeq(padded, Len(padded) - value.s + 1, Len(padded))
    IN  (IF value.m < 0 THEN <<"-">> ELSE <<>>)
        \o whole
        \o (IF value.s > 0 THEN <<".">> \o fraction ELSE <<>>)

\* Number.prototype.toString prints a value v = 0.d1d2.. * 10^n without an
\* exponent when -6 < n <= 21
PlainNotation(value) ==
    IF value.m = 0 THEN TRUE ELSE Len(NatString(Abs(value.m))) - value.s > -6

InModel(value) ==
    /\ value # Inexact
    /\ Abs(value.m) <= MaxMantissa
    /\ value.s <= MaxScale
    /\ PlainNotation(value)
    /\ Len(String(value)) <= 12

\* firstValue + secondValue, on the larger scale
plus(a, b) ==
    LET scale == Max(a.s, b.s)
    IN  normalise(a.m * Pow10(scale - a.s) + b.m * Pow10(scale - b.s), scale)

times(a, b) == normalise(a.m * b.m, a.s + b.s)

\* n / d for d > 0 as a decimal of k more places
RECURSIVE quotient(_, _, _)
quotient(n, d, k) ==
    IF n % d = 0
    THEN normalise(n \div d, k)
    ELSE IF Abs(n) > MaxMantissa THEN Inexact ELSE quotient(10 * n, d, k + 1)

over(a, b) ==
    LET n == a.m * Pow10(b.s)
        d == b.m * Pow10(a.s)
    IN  IF d < 0 THEN quotient(-n, -d, 0) ELSE quotient(n, d, 0)

\* the products of the operation stay within MaxMantissa
Computable(a, b, operation) ==
    LET fits(x, y) == Abs(x) <= MaxMantissa \div Max(Abs(y), 1)
    IN  /\ InModel(a)
        /\ InModel(b)
        /\ operation \in {"add", "subtract"}
              => /\ fits(a.m, Pow10(Max(a.s, b.s) - a.s))
                 /\ fits(b.m, Pow10(Max(a.s, b.s) - b.s))
        /\ operation = "multiply" => fits(a.m, b.m)
        /\ operation = "divide" => fits(a.m, Pow10(b.s)) /\ fits(b.m, Pow10(a.s))
        /\ operation = "percentage" => fits(a.m, b.m)

\* calculate with zero for the quotient of a division by zero
calculateDivisionByZeroIsZero(firstValue, secondValue, operation) ==
    CASE operation = "add" -> plus(firstValue, secondValue)
      [] operation = "subtract" ->
             plus(firstValue, [secondValue EXCEPT !.m = -@])
      [] operation = "multiply" -> times(firstValue, secondValue)
      [] operation = "divide" ->
             IF secondValue = Zero THEN Zero ELSE over(firstValue, secondValue)
      [] operation = "percentage" ->
             times(firstValue, over(secondValue, [m |-> 100, s |-> 0]))
      [] OTHER -> secondValue

\* calculate with the operands taken right to left
calculateRightToLeft(firstValue, secondValue, operation) ==
    CASE operation = "add" -> plus(secondValue, firstValue)
      [] operation = "subtract" ->
             plus(secondValue, [firstValue EXCEPT !.m = -@])
      [] operation = "multiply" -> times(secondValue, firstValue)
      [] operation = "divide" ->
             IF secondValue = Zero THEN Null
             ELSE IF firstValue = Zero THEN Zero
             ELSE over(secondValue, firstValue)
      [] operation = "percentage" ->
             times(firstValue, over(secondValue, [m |-> 100, s |-> 0]))
      [] OTHER -> secondValue

calculate(firstValue, secondValue, operation) ==
    CASE operation = "add" -> plus(firstValue, secondValue)
      [] operation = "subtract" ->
             plus(firstValue, [secondValue EXCEPT !.m = -@])
      [] operation = "multiply" -> times(firstValue, secondValue)
      [] operation = "divide" ->
             IF secondValue = Zero THEN Null ELSE over(firstValue, secondValue)
      [] operation = "percentage" ->
             times(firstValue, over(secondValue, [m |-> 100, s |-> 0]))
      [] OTHER -> secondValue

\* the Calculator after reset(), which the constructor calls
reset ==
    [currentValue |-> <<"0">>, previousValue |-> Empty, operation |-> "null",
     waitingForOperand |-> FALSE]

clearEntry(this) ==
    [this EXCEPT !.currentValue = <<"0">>, !.waitingForOperand = FALSE]

inputNumber(this, num) ==
    IF this.waitingForOperand
    THEN [this EXCEPT !.currentValue = <<num>>, !.waitingForOperand = FALSE]
    ELSE [this EXCEPT !.currentValue = IF @ = <<"0">> THEN <<num>> ELSE @ \o <<num>>]

\* inputDecimal without the test for a point in the entry
inputDecimalAlwaysAppends(this) ==
    IF this.waitingForOperand
    THEN [this EXCEPT !.currentValue = <<"0", ".">>, !.waitingForOperand = FALSE]
    ELSE [this EXCEPT !.currentValue = @ \o <<".">>]

inputDecimal(this) ==
    IF this.waitingForOperand
    THEN [this EXCEPT !.currentValue = <<"0", ".">>, !.waitingForOperand = FALSE]
    ELSE IF indexOf(this.currentValue, ".") = 0
         THEN [this EXCEPT !.currentValue = @ \o <<".">>]
         ELSE this

\* this.previousValue || 0
orZero(value) == IF value = Zero THEN Zero ELSE value

\* the calculation performOperation and equals make, if any
Pending(this) == this.previousValue # Empty /\ this.operation # "null"

pendingValue(this) ==
    calculate(orZero(this.previousValue), parseFloat(this.currentValue),
              this.operation)

\* the value returned and the Calculator left behind
performOperation(this, nextOperation) ==
    LET inputValue == parseFloat(this.currentValue)
        done(after) ==
            [returns |-> TRUE,
             this |-> [after EXCEPT !.waitingForOperand = TRUE,
                                    !.operation = nextOperation]]
    IN  IF this.previousValue = Empty
        THEN done([this EXCEPT !.previousValue = inputValue])
        ELSE IF this.operation # "null"
             THEN LET newValue == pendingValue(this)
                  IN  IF newValue = Null
                      THEN [returns |-> FALSE, this |-> this]
                      ELSE done([this EXCEPT !.currentValue = String(newValue),
                                             !.previousValue = newValue])
             ELSE done(this)

equals(this) ==
    IF Pending(this)
    THEN LET newValue == pendingValue(this)
         IN  IF newValue = Null
             THEN [returns |-> FALSE, this |-> this]
             ELSE [returns |-> TRUE,
                   this |-> [currentValue |-> String(newValue),
                             previousValue |-> Empty, operation |-> "null",
                             waitingForOperand |-> TRUE]]
    ELSE [returns |-> TRUE, this |-> [this EXCEPT !.waitingForOperand = FALSE]]

percentage(this) ==
    [this EXCEPT
        !.currentValue =
            String(over(parseFloat(this.currentValue), [m |-> 100, s |-> 0])),
        !.waitingForOperand = TRUE]

\* value.toString(): within the model's numbers neither toExponential nor
\* toPrecision is reached
getDisplay(this) == String(parseFloat(this.currentValue))

\* the page after DOMContentLoaded: new Calculator(), new CalculatorUI()
InitCalculator ==
    /\ NoServer
    /\ NoPipeline
    /\ analysisResults = {}
    /\ calculator = reset
    /\ display = getDisplay(reset)
    /\ timers = 0
    /\ key = "none"
    /\ result = TRUE
    /\ pressed = 0
    /\ chain = <<>>

\* the keys since the last reset while they are operand, operator, operand,
\* operator, operand, equals; <<"other">> once they are not
Follow(keys, k) ==
    LET n == Len(keys) + 1
    IN  IF /\ keys # <<"other">>
           /\ \/ n \in {1, 3, 5} /\ k \in DigitKeys
              \/ n \in {2, 4} /\ k \in OperationKeys
              \/ n = 6 /\ k = "equals"
        THEN Append(keys, k)
        ELSE <<"other">>

\* the handler of key or button k runs
Pressed(k) ==
    /\ pressed < MaxKeys
    /\ pressed' = pressed + 1
    /\ key' = k
    /\ chain' = Follow(chain, k)

\* this.display.textContent = this.calculator.getDisplay()
updateDisplay == display' = getDisplay(calculator')

showError(message) ==
    /\ timers < MaxTimers
    /\ display' = message
    /\ timers' = timers + 1

\* the calculation the calculator is about to make is one the model follows
Followed(this) ==
    Pending(this)
        => /\ Computable(orZero(this.previousValue),
                         parseFloat(this.currentValue), this.operation)
           /\ IF pendingValue(this) = Null
              THEN TRUE
              ELSE InModel(pendingValue(this))

HandleNumber(number) ==
    /\ Pressed(number)
    /\ calculator' = inputNumber(calculator, number)
    /\ updateDisplay
    /\ result' = TRUE
    /\ UNCHANGED <<timers, serverVars, pipelineVars, analysisResults>>

HandleClear ==
    /\ calculator' = reset
    /\ updateDisplay
    /\ key' = "clear"
    /\ pressed' = 0
    /\ chain' = <<>>
    /\ result' = TRUE
    /\ UNCHANGED <<timers, serverVars, pipelineVars, analysisResults>>

HandleClearEntry ==
    /\ Pressed("clear-entry")
    /\ calculator' = clearEntry(calculator)
    /\ updateDisplay
    /\ result' = TRUE
    /\ UNCHANGED <<timers, serverVars, pipelineVars, analysisResults>>

HandleDecimal ==
    /\ Pressed("decimal")
    /\ calculator' = inputDecimal(calculator)
    /\ updateDisplay
    /\ result' = TRUE
    /\ UNCHANGED <<timers, serverVars, pipelineVars, analysisResults>>

HandleEquals ==
    /\ Pressed("equals")
    /\ Followed(calculator)
    /\ LET call == equals(calculator)
       IN  /\ calculator' = call.this
           /\ result' = call.returns
           /\ IF ~call.returns
              THEN showError(<<"E", "r", "r", "o", "r">>)
              ELSE updateDisplay /\ UNCHANGED timers
    /\ UNCHANGED <<serverVars, pipelineVars, analysisResults>>

HandlePercentage ==
    /\ Pressed("percentage")
    /\ Computable(parseFloat(calculator.currentValue), [m |-> 100, s |-> 0],
                  "divide")
    /\ InModel(over(parseFloat(calculator.currentValue), [m |-> 100, s |-> 0]))
    /\ calculator' = percentage(calculator)
    /\ updateDisplay
    /\ result' = TRUE
    /\ UNCHANGED <<timers, serverVars, pipelineVars, analysisResults>>

HandleOperation(action) ==
    /\ Pressed(action)
    /\ Followed(calculator)
    /\ LET call == performOperation(calculator, action)
       IN  /\ calculator' = call.this
           /\ result' = call.returns
           /\ IF ~call.returns
              THEN showError(<<"C", "a", "n", "n", "o", "t", " ", "d", "i", "v", "i", "d", "e", " ", "b", "y", " ", "z", "e", "r", "o">>)
              ELSE updateDisplay /\ UNCHANGED timers
    /\ UNCHANGED <<serverVars, pipelineVars, analysisResults>>

\* the callback of showError's setTimeout without the reset
TimeoutWithoutReset ==
    /\ timers > 0
    /\ timers' = timers - 1
    /\ calculator' = calculator
    /\ updateDisplay
    /\ key' = "timeout"
    /\ result' = TRUE
    /\ UNCHANGED <<pressed, chain, serverVars, pipelineVars, analysisResults>>

\* the callback of showError's setTimeout, 1500 ms after the error
Timeout ==
    /\ timers > 0
    /\ timers' = timers - 1
    /\ calculator' = reset
    /\ updateDisplay
    /\ key' = "timeout"
    /\ pressed' = 0
    /\ chain' = <<>>
    /\ result' = TRUE
    /\ UNCHANGED <<serverVars, pipelineVars, analysisResults>>

NextCalculator ==
    \/ \E number \in DigitKeys : HandleNumber(number)
    \/ HandleClear
    \/ HandleClearEntry
    \/ HandleDecimal
    \/ HandleEquals
    \/ HandlePercentage
    \/ \E action \in OperationKeys : HandleOperation(action)
    \/ Timeout

SpecCalculator == InitCalculator /\ [][NextCalculator]_vars

\* ------------------------------------------------------------------ claims

Dimensions == {"overall", "quality", "security", "performance", "maintainability"}

\* calculateScores has returned in this run
ScoresComputed ==
    \/ pc \in {"create", "update", "done"}
    \/ pc = "failed" /\ raised \in {"create", "update"}

\* collectCodeFiles has returned in this run
CollectionOver ==
    \/ pc \in {"calculateBasicMetrics", "performAIAnalysis", "calculateScores",
               "create", "update", "done"}
    \/ pc = "failed" /\ raised # "getLatestCommit"

\* the rows of the store this run created
CreatedByRun == {r \in analysisResults : r.id = analysisResult}

\* C1: each of quality, security, performance, maintainability and overall
\* that calculateScores returns is a number between 0 and 10, for every
\* AnalysisMetrics (the empty file set included) and every IssueCount.
C1_ScoresInRange ==
    ScoresComputed =>
        \A d \in Dimensions : ~scores[d].nan /\ scores[d].tenths \in 0..100

\* C2: when the root listing of the remote tree cannot be fetched, the run
\* does not complete, creates no AnalysisResult and leaves lastAnalyzedAt
\* as it was.
C2_RootListingFailureFailsRun ==
    0 \in failedNodes =>
        /\ pc # "done"
        /\ CreatedByRun = {}
        /\ analysisResults = PriorResults(prior)
        /\ lastAnalyzedAt = prior

\* C3: when the inference request throws, the row the run persists has the
\* IssueCount {0, 0, 0, 1} and 7.0 in every dimension of its scores.
C3_FallbackScoresPersisted ==
    aiResponse.kind = "error" =>
        \A r \in CreatedByRun :
            /\ r.issues = [critical |-> 0, major |-> 0, minor |-> 0, suggestions |-> 1]
            /\ r.scores = SevenEverywhere

\* C4: whatever way the inference step fails (request error, no or non-text
\* content, text that is no JSON, JSON without an iterable issues list),
\* performAIAnalysis returns the fixed fallback and does not raise: the run
\* goes on to the scores and the create, and if it fails it fails there or
\* later.
C4_InferenceFailureAbsorbed ==
    aiResponse.kind \in InferenceFailures =>
        /\ aiAnalysis = fallbackAnalysis
        /\ raised # "performAIAnalysis"
        /\ pc \in {"calculateScores", "create", "update", "done", "failed"}
        /\ pc = "failed" => raised \in {"create", "update"} /\ calls.creates = 1
        /\ pc \in {"update", "done"} => CreatedByRun # {}

C4_Witness ==
    /\ aiResponse.kind = "invalid_json"
    /\ pc = "update"
    /\ CreatedByRun # {}

\* C5: when analyzeRepository raises because the create or the update of
\* lastAnalyzedAt failed, no AnalysisResult of that run is left in the store.
C5_NoPartialPersistence ==
    (pc = "failed" /\ raised \in {"create", "update"}) => CreatedByRun = {}

\* C6: the collector never holds more than 100 accepted files, and it
\* requests no file content once it holds 100.
C6_AtMostMaxFiles ==
    /\ [](Len(codeFiles) <= 100)
    /\ [][calls'.files > calls.files => Len(codeFiles) < 100]_vars

\* the cap is reached in core while entries are left there, in src and in
\* the root
C6_Witness ==
    /\ Len(codeFiles) = 100
    /\ pc = "traverseDirectory"
    /\ Len(stack) = 3
    /\ \A i \in 1..Len(stack) : stack[i].index <= Len(stack[i].contents)

\* the suffix of a name from its last "." is one of the supported extensions
HasSupportedExtension(name) ==
    \E i \in 1..Len(name) :
        /\ name[i] = "."
        /\ \A j \in (i + 1)..Len(name) : name[j] # "."
        /\ SubSeq(name, i, Len(name)) \in supportedExtensions

\* C7: every accepted CodeFile has a supported extension and a size below
\* 100,000 bytes, and the content of a file that fails either test is never
\* requested.
C7_AcceptedFilesSupported ==
    /\ [](\A i \in 1..Len(codeFiles) :
            /\ HasSupportedExtension(codeFiles[i].path[Len(codeFiles[i].path)])
            /\ codeFiles[i].size < 100000)
    /\ [][calls'.files > calls.files =>
            HasSupportedExtension(item.name) /\ item.size < 100000]_vars

\* a file one byte below the cap is accepted after a file at the cap, a
\* file with another extension and a file without a "." were passed over
C7_Witness ==
    /\ remote = 2
    /\ \E i \in 1..Len(codeFiles) :
          codeFiles[i].path = <<<<"s", "c", "h", "e", "m", "a", ".", "s", "q", "l">>>> /\ codeFiles[i].size = 99999
    /\ \A i \in 1..Len(codeFiles) :
          codeFiles[i].path \notin {<<<<"d", "u", "m", "p", ".", "s", "q", "l">>>>, <<<<"R", "E", "A", "D", "M", "E", ".", "m", "d">>>>, <<<<"M", "a", "k", "e", "f", "i", "l", "e">>>>}

\* no name of the path except the last is a denied directory name
NoIgnoredAncestor(path) ==
    \A i \in 1..(Len(path) - 1) : path[i] \notin ignoredDirs

\* C8: at no depth does the collector list a directory with a denied name:
\* no activation of traverseDirectory runs on one or below one, no listing
\* of one is requested, and no accepted CodeFile lies below one.
C8_IgnoredDirsNeverListed ==
    /\ [](\A i \in 1..Len(stack) :
            \A n \in 1..Len(PathOf(tree, stack[i].currentPath)) :
                PathOf(tree, stack[i].currentPath)[n] \notin ignoredDirs)
    /\ [](\A i \in 1..Len(codeFiles) : NoIgnoredAncestor(codeFiles[i].path))
    /\ [][(calls'.listings > calls.listings /\ pc = "traverseDirectory") =>
            item.name \notin ignoredDirs]_vars

\* src was listed and its file after the directory vendor was accepted
C8_Witness ==
    /\ remote = 2
    /\ CollectionOver
    /\ \E i \in 1..Len(codeFiles) : codeFiles[i].path = <<<<"s", "r", "c">>, <<"u", "t", "i", "l", ".", "t", "e", "s", "t", ".", "j", "s">>>>
    /\ \E i \in 1..Len(codeFiles) : codeFiles[i].path = <<<<"s", "c", "h", "e", "m", "a", ".", "s", "q", "l">>>>

\* the directories above entry k were all listed: none is denied, none failed
RECURSIVE Listed(_, _, _)
Listed(t, k, failed) ==
    \/ t[k].parent = 0
    \/ /\ t[t[k].parent].name \notin ignoredDirs
       /\ t[k].parent \notin failed
       /\ Listed(t, t[k].parent, failed)

\* the files a traversal without a cap accepts when the fetches of `failed`
\* fail
Acceptable(t, failed) ==
    {k \in 1..Len(t) :
        /\ t[k].type = "file"
        /\ HasSupportedExtension(t[k].name)
        /\ t[k].size < 100000
        /\ k \notin failed
        /\ Listed(t, k, failed)}

\* C9: a failed listing of a sub-directory or a failed file content skips
\* that entry only: the step keeps the accepted files, goes on with the next
\* sibling and raises nothing; accepted files are never dropped; and when
\* the root listing succeeded the collection ends with every acceptable
\* file whose fetch did not fail (with 100 of them under the cap).
C9_FetchFailureSkipsOneItem ==
    /\ [][(failedNodes' # failedNodes /\ 0 \notin failedNodes') =>
            /\ codeFiles' = codeFiles
            /\ pc' = "traverseDirectory"
            /\ raised' = "none"
            /\ stack' = [stack EXCEPT ![Len(stack)].index = @ + 1]]_vars
    /\ [][pc = "traverseDirectory" =>
            /\ Len(codeFiles') >= Len(codeFiles)
            /\ SubSeq(codeFiles', 1, Len(codeFiles)) = codeFiles]_vars
    /\ []((CollectionOver /\ 0 \notin failedNodes) =>
            LET paths == {codeFiles[i].path : i \in 1..Len(codeFiles)}
                all == {PathOf(tree, k) : k \in Acceptable(tree, failedNodes)}
            IN  /\ paths \subseteq all
                /\ Cardinality(paths) = Len(codeFiles)
                /\ Len(codeFiles) = Min(Cardinality(all), 100))

\* the content of src/app.ts is lost, and
\* the files after them are accepted
C9_Witness ==
    /\ remote = 2
    /\ CollectionOver
    /\ 4 \in failedNodes
    /\ 0 \notin failedNodes
    /\ \E i \in 1..Len(codeFiles) : codeFiles[i].path = <<<<"s", "r", "c">>, <<"u", "t", "i", "l", ".", "t", "e", "s", "t", ".", "j", "s">>>>
    /\ \E i \in 1..Len(codeFiles) : codeFiles[i].path = <<<<"s", "c", "h", "e", "m", "a", ".", "s", "q", "l">>>>

\* C10: for the empty file set (no line, no repeated line) with no critical,
\* major or minor issue and complexity 0, the duplicate penalty is 0 and
\* every score is 10.0.
C10_EmptyFileSetScoresTen ==
    ( /\ ScoresComputed
      /\ metrics.totalLines = 0
      /\ metrics.duplicateLines = 0
      /\ metrics.codeComplexity.num = 0
      /\ aiAnalysis.issues.critical = 0
      /\ aiAnalysis.issues.major = 0
      /\ aiAnalysis.issues.minor = 0 )
    => \A d \in Dimensions : scores[d] = Tenths(100)

\* the run of the score composer alone stands after calculateScores, on
\* metrics without complexity and repeated lines over at least one line
PenaltyFreeScores ==
    /\ pc = "create"
    /\ metrics.codeComplexity.num = 0
    /\ metrics.duplicateLines = 0
    /\ metrics.totalLines > 0

\* C11: with codeComplexity = 0, duplicateLines = 0 and totalLines > 0,
\* quality = max(0, 10 - 2.0c - 1.0M - 0.5m), security = max(0, 10 - 2.5c
\* - 1.2M), performance = max(0, 10 - 1.5c - 0.8M) and maintainability =
\* max(0, 10 - 1.8c - 0.9M - 0.3m), each to one decimal; the number of
\* suggestions changes no score; no issue gives 10.0 everywhere, and two
\* critical issues alone give 6.0 / 5.0 / 7.0 / 6.4 and 6.1 overall.
C11_IssueOnlyScores ==
    PenaltyFreeScores =>
        LET c == aiAnalysis.issues.critical
            M == aiAnalysis.issues.major
            m == aiAnalysis.issues.minor
        IN  /\ scores.quality = Tenths(Max(0, 100 - 20 * c - 10 * M - 5 * m))
            /\ scores.security = Tenths(Max(0, 100 - 25 * c - 12 * M))
            /\ scores.performance = Tenths(Max(0, 100 - 15 * c - 8 * M))
            /\ scores.maintainability =
                   Tenths(Max(0, 100 - 18 * c - 9 * M - 3 * m))
            /\ \A i \in IssueInputs :
                   (i.critical = c /\ i.major = M /\ i.minor = m)
                   => calculateScores(metrics, i).overall = scores.overall
            /\ (c = 0 /\ M = 0 /\ m = 0)
               => \A d \in Dimensions : scores[d] = Tenths(100)
            /\ (c = 2 /\ M = 0 /\ m = 0)
               => /\ scores.quality = Tenths(60)
                  /\ scores.security = Tenths(50)
                  /\ scores.performance = Tenths(70)
                  /\ scores.maintainability = Tenths(64)
                  /\ scores.overall = Tenths(61)

\* two critical issues and a suggestion, scored 6.1 overall
C11_Witness ==
    /\ PenaltyFreeScores
    /\ aiAnalysis.issues =
           [critical |-> 2, major |-> 0, minor |-> 0, suggestions |-> 1]
    /\ scores.overall = Tenths(61)
    /\ scores.maintainability = Tenths(64)

\* the clamped sub-scores before rounding, in tenths over the denominator
\* den, for metrics of at least one line
ClampedSubScores(m, i) ==
    LET den == m.codeComplexity.den * m.totalLines
        complexity == Min(m.codeComplexity.num * m.totalLines, 20 * den)
        duplicate == Min(50 * m.duplicateLines * m.codeComplexity.den, 15 * den)
    IN  [den |-> den,
         quality |->
             Max(0, (100 - 20 * i.critical - 10 * i.major - 5 * i.minor) * den
                    - complexity - duplicate),
         security |-> Max(0, (100 - 25 * i.critical - 12 * i.major) * den),
         performance |-> Max(0, (100 - 15 * i.critical - 8 * i.major) * den),
         maintainability |->
             Max(0, (100 - 18 * i.critical - 9 * i.major - 3 * i.minor) * den
                    - complexity - duplicate)]

\* 100 times the weighted average of four sub-scores
Weighted(s) ==
    30 * s.quality + 25 * s.security + 25 * s.performance
    + 20 * s.maintainability

\* overall is the weighted average of the clamped sub-scores to one decimal
\* and is within 0.1 of the weighted average of the reported sub-scores
OverallWithinTolerance ==
    LET clamped == ClampedSubScores(metrics, aiAnalysis.issues)
        exact == Weighted(clamped)
        reported == Weighted([d \in Dimensions |-> scores[d].tenths])
        overall == scores.overall.tenths
    IN  /\ (2 * overall - 1) * 100 * clamped.den <= 2 * exact
        /\ 2 * exact < (2 * overall + 1) * 100 * clamped.den
        /\ 100 * overall - reported <= 100
        /\ reported - 100 * overall <= 100

\* C12: for every ScoreBreakdown, overall is quality*0.30 + security*0.25
\* + performance*0.25 + maintainability*0.20 of the clamped sub-scores,
\* rounded to one decimal, and differs from the same formula applied to the
\* reported sub-scores by at most 0.1.
C12_OverallIsWeightedAverage ==
    pc = "create" =>
        /\ \A d \in Dimensions : ~scores[d].nan
        /\ OverallWithinTolerance

\* the same for the score breakdowns of at least one line
C12_ForNonEmptyFileSets ==
    (pc = "create" /\ metrics.totalLines > 0) =>
        /\ \A d \in Dimensions : ~scores[d].nan
        /\ OverallWithinTolerance

\* calculateBasicMetrics has returned in the run of the metrics alone
MetricsComputed == pc = "performAIAnalysis"

\* the lines of a file sequence, as <<file, line>> positions
LinePositions(files) ==
    UNION {{<<f, l>> : l \in 1..Len(split(files[f].content))} :
              f \in 1..Len(files)}

TrimmedLine(files, p) == trim(split(files[p[1]].content)[p[2]])

\* the positions of the trimmed lines longer than 10 characters
QualifyingLines(files) ==
    {p \in LinePositions(files) : Len(TrimmedLine(files, p)) > 10}

\* C13: for every sequence of CodeFiles, duplicateLines <= totalLines, and
\* duplicateLines is the number of occurrences of trimmed lines longer than
\* 10 characters over the whole file set minus the number of distinct such
\* lines.
C13_DuplicateLinesCounted ==
    MetricsComputed =>
        LET qualifying == QualifyingLines(codeFiles)
            distinct == {TrimmedLine(codeFiles, p) : p \in qualifying}
        IN  /\ metrics.duplicateLines <= metrics.totalLines
            /\ metrics.duplicateLines
                   = Cardinality(qualifying) - Cardinality(distinct)

\* a line repeated within a file and again in another file
C13_Witness ==
    /\ MetricsComputed
    /\ Len(codeFiles) = 2
    /\ codeFiles[1].content # codeFiles[2].content
    /\ metrics.duplicateLines = 2
    /\ metrics.totalLines = 4

\* the orders of n files: the permutations of 1..n
OrdersOf(n) ==
    {p \in [1..n -> 1..n] : \A i, j \in 1..n : p[i] = p[j] => i = j}

\* C14: calculateBasicMetrics is independent of the order of the files:
\* totalLines, totalFiles, codeComplexity and duplicateLines are the same
\* for every permutation of a file sequence.
C14_FileOrderIrrelevant ==
    MetricsComputed =>
        \A p \in OrdersOf(Len(codeFiles)) :
            calculateBasicMetrics([k \in 1..Len(codeFiles) |-> codeFiles[p[k]]])
                = metrics

\* three files of different length, with complexity and a repeated line
\* whose first occurrence depends on the order
C14_Witness ==
    /\ MetricsComputed
    /\ Len(codeFiles) = 3
    /\ Len(split(codeFiles[1].content)) # Len(split(codeFiles[3].content))
    /\ codeFiles[1].content # codeFiles[2].content
    /\ metrics.duplicateLines > 0
    /\ metrics.codeComplexity.num > 0

\* C15: an invocation of analyzeRepository that returns has created exactly
\* one AnalysisResult, has then issued exactly one update of the
\* repository's lastAnalyzedAt, and returns the id of the created row; an
\* invocation that raises before the create step has created none.
C15_OneCreateThenOneUpdate ==
    /\ [](pc = "done" =>
            /\ calls.creates = 1
            /\ calls.updates = 1
            /\ lastAnalyzedAt = prior + 1
            /\ Cardinality(CreatedByRun) = 1
            /\ analysisResults = PriorResults(prior) \cup CreatedByRun
            /\ CreatedByRun \cap PriorResults(prior) = {}
            /\ returned = analysisResult)
    /\ []((pc = "failed" /\ calls.creates = 0) =>
            /\ analysisResults = PriorResults(prior)
            /\ analysisResult = 0
            /\ calls.updates = 0)
    /\ [][calls'.updates > calls.updates =>
            /\ calls.creates = 1
            /\ Cardinality(CreatedByRun) = 1
            /\ analysisResults' = analysisResults]_vars

\* a run over collected files that returned the id of its row, next to the
\* row of an earlier run
C15_Witness ==
    /\ pc = "done"
    /\ prior = 1
    /\ codeFiles # <<>>
    /\ returned = 2
    /\ Cardinality(analysisResults) = 2

\* C16: AnalysisResult rows are append-only: no step of a run, a re-run for
\* the same repository, commit and branch, a webhook-triggered run or a
\* route handler changes a field of a row; a row of the store is in the
\* next state either unchanged or gone, ids are never shared, and the id of
\* a deleted row is not given to another row.
C16_RowsNeverChange ==
    /\ [][\A a \in analysisResults :
             \/ a \in analysisResults'
             \/ \A b \in analysisResults' : b.id # a.id]_vars
    /\ [](\A a, b \in analysisResults : a.id = b.id => a = b)
    /\ [](\A a \in removed : \A b \in analysisResults : b.id # a.id)

\* a webhook re-run has written its row and lastAnalyzedAt next to the row
\* of the manual run for the same repository, commit and branch
C16_Witness ==
    /\ \E a, b \in analysisResults :
          /\ a.id = 1
          /\ b.id = 2
          /\ a.repositoryId = b.repositoryId
          /\ a.commitSha = b.commitSha /\ a.branch = b.branch
          /\ a.triggeredBy = "manual" /\ b.triggeredBy = "webhook"
          /\ a.overall # b.overall
    /\ \E k \in DOMAIN runs : runs[k].pc = "done"
    /\ \E r \in repositories : r.id = "r1" /\ r.lastAnalyzedAt = 2

\* no DELETE /:id for this repository is under way
NoDeleteInFlight(repositoryId) ==
    \A q \in DOMAIN requests :
        ~ /\ requests[q].endpoint = "DELETE /:id"
          /\ requests[q].id = repositoryId
          /\ requests[q].pc # "answered"

\* C17: an AnalysisResult is deleted only when its repository is deleted:
\* once the handler that removed a row has answered, the repository the row
\* referenced is gone too (repository, organization and account deletion).
C17_RemovedOnlyWithRepository ==
    \A a \in removed :
        NoDeleteInFlight(a.repositoryId) => a.repositoryId \notin RepositoryIds

\* the requests of the manual trigger that were answered 'processing'
Processing ==
    {q \in DOMAIN requests :
        /\ requests[q].endpoint = "POST /:id/analyze"
        /\ requests[q].status = 200}

\* C18: the manual trigger is enqueue-and-return: the 'processing' answer
\* is sent without waiting for the analysis (it can be sent while the
\* analysis is pending, and whatever the analysis has come to), its content
\* does not depend on the outcome of the analysis, and a failure of the
\* analysis after the answer is only logged.
C18_EnqueueAndReturn ==
    /\ [](\A q \in DOMAIN requests :
            (requests[q].endpoint = "POST /:id/analyze"
             /\ requests[q].pc = "respond")
            => ENABLED AnalyzeRespond(q))
    /\ [](\A q \in Processing :
            /\ requests[q].body = "processing"
            /\ requests[q].run \in {"pending", "fulfilled", "rejected"}
            /\ requests[q].handled)
    /\ [][\A q \in Processing :
             /\ requests'[q].status = 200
             /\ requests'[q].body = "processing"
             /\ (requests[q].run = "pending" /\ requests'[q].run = "rejected")
                => /\ requests'[q].logged
                          = Append(requests[q].logged, "Analysis failed")
                   /\ subscriptions' = subscriptions
                   /\ \A p \in DOMAIN requests \ {q} :
                          requests'[p] = requests[p]]_vars

\* 'processing' was answered while the analysis is pending
C18_Witness ==
    \E q \in Processing :
        /\ requests[q].run = "pending"
        /\ requests[q].pc = "answered"
        /\ requests[q].logged = <<>>

\* C19: for a subscription with a finite monthly analysis limit,
\* analysesThisMonth never exceeds maxAnalysesPerMonth, however the manual
\* triggers of the user interleave.
C19_AnalysesWithinLimit ==
    \A u \in DOMAIN subscriptions :
        (subscriptions[u] # NoSubscription
         /\ subscriptions[u].maxAnalysesPerMonth >= 0)
        => subscriptions[u].analysesThisMonth
               <= subscriptions[u].maxAnalysesPerMonth

\* the limit checkUsageLimit tests for request q
LimitOf(q) ==
    IF limitTypeOf(requests[q].endpoint) = "repositories"
    THEN requests[q].subscription.maxRepositories
    ELSE requests[q].subscription.maxAnalysesPerMonth

\* C20: a subscription whose limit is unlimited (-1: repositories for
\* Professional and Enterprise, analyses for Enterprise) is never refused
\* by checkUsageLimit for that limit type, whatever its usage.
C20_UnlimitedNeverRefused ==
    \A q \in DOMAIN requests :
        (requests[q].subscription # NoSubscription /\ LimitOf(q) = -1)
        => requests[q].body \notin {"Repository limit exceeded",
                                    "Monthly analysis limit exceeded"}

\* the usage the subscription of the user of request q has counted for the
\* limit type of the endpoint
UsageOf(q) ==
    IF limitTypeOf(requests[q].endpoint) = "repositories"
    THEN subscriptions[requests[q].userId].repositoriesUsed
    ELSE subscriptions[requests[q].userId].analysesThisMonth

\* C21: a user whose subscription is ACTIVE on the FREE plan can import a
\* repository while repositoriesUsed < 3 and trigger an analysis while
\* analysesThisMonth < 10: requireSubscription and checkUsageLimit let the
\* request through to the handler, they do not answer it with an error.
C21_FreePlanReachesHandler ==
    \A q \in DOMAIN requests :
        LET subscription == subscriptions[requests[q].userId]
        IN  ( /\ subscription # NoSubscription
              /\ subscription.status = "ACTIVE"
              /\ subscription.plan = "FREE"
              /\ UsageOf(q) < (IF requests[q].endpoint = "POST /import"
                               THEN 3 ELSE 10) )
            => ~ /\ requests[q].pc = "answered"
                 /\ requests[q].status \in {400, 403}

\* the position of a step in analyzeRepository's body
Stage(p) ==
    CASE p = "getLatestCommit" -> 1
      [] p \in {"collectCodeFiles", "traverseDirectory"} -> 2
      [] p = "calculateBasicMetrics" -> 3
      [] p = "performAIAnalysis" -> 4
      [] p = "calculateScores" -> 5
      [] p = "create" -> 6
      [] p = "update" -> 7
      [] p \in {"done", "failed"} -> 8

\* the step that issues each kind of call
CallsIssuedInStage ==
    /\ calls'.commits # calls.commits => Stage(pc) = 1
    /\ (calls'.listings # calls.listings \/ calls'.files # calls.files)
          => Stage(pc) = 2
    /\ metrics' # metrics => Stage(pc) = 3
    /\ calls'.inference # calls.inference => Stage(pc) = 4
    /\ scores' # scores => Stage(pc) = 5
    /\ calls'.creates # calls.creates => Stage(pc) = 6
    /\ (calls'.updates # calls.updates \/ lastAnalyzedAt' # lastAnalyzedAt)
          => Stage(pc) = 7

\* a request that failed is not issued again: the run is over after a failed
\* commit, inference, create or update, and a node whose listing or content
\* failed is neither requested again nor collected
NoRetry ==
    /\ raised # "none" => pc = "failed"
    /\ \A k \in 1..Len(stack) : stack[k].currentPath \notin failedNodes \ {0}
    /\ Cardinality(failedNodes) + Len(codeFiles)
          <= calls.listings + calls.files
    /\ calls.listings + calls.files
          <= Len(tree) + 1

\* C26: within one run the steps occur in the order latest-commit fetch, file
\* collection, metric computation, inference request, score composition,
\* AnalysisResult create, lastAnalyzedAt update; at most one inference
\* request is issued, and no failed remote call is issued again.
C26_StepsInOrderNoRetry ==
    /\ [][Stage(pc') >= Stage(pc) /\ CallsIssuedInStage]_vars
    /\ [](calls.commits <= 1 /\ calls.inference <= 1 /\ NoRetry)

\* a run that went through every step, with a listing that failed on the way
C26_Witness ==
    /\ pc = "done"
    /\ calls.inference = 1
    /\ failedNodes # {}

\* C27: when fetching the latest commit fails, analyzeRepository raises before
\* any tree listing, file fetch or inference request is made, and neither an
\* AnalysisResult is created nor lastAnalyzedAt updated.
C27_CommitFailureStopsRun ==
    raised = "getLatestCommit"
        => /\ pc = "failed"
           /\ calls.listings = 0 /\ calls.files = 0 /\ calls.inference = 0
           /\ calls.creates = 0 /\ calls.updates = 0
           /\ analysisResults = PriorResults(prior)
           /\ lastAnalyzedAt = prior

C27_Witness ==
    /\ raised = "getLatestCommit"
    /\ calls.commits = 1

\* C29: for metrics with totalLines > 0 and an IssueCount without critical,
\* major or minor issue, security and performance are exactly 10.0, and
\* quality and maintainability are equal and at least 6.5: the complexity
\* penalty is at most 2.0 and the duplicate penalty at most 1.5, and both
\* touch these two dimensions only.
C29_PenaltiesCapped ==
    ( /\ pc = "create"
      /\ metrics.totalLines > 0
      /\ aiAnalysis.issues.critical = 0
      /\ aiAnalysis.issues.major = 0
      /\ aiAnalysis.issues.minor = 0 )
    => /\ scores.security = Tenths(100)
       /\ scores.performance = Tenths(100)
       /\ scores.quality = scores.maintainability
       /\ ~scores.quality.nan
       /\ scores.quality.tenths >= 65
       /\ scores.quality.tenths <= 100

\* both penalties at their caps: 6.5 for quality and maintainability
C29_Witness ==
    /\ pc = "create"
    /\ metrics.totalLines > 0
    /\ metrics.codeComplexity.num >= 20 * metrics.codeComplexity.den
    /\ 10 * metrics.duplicateLines >= 3 * metrics.totalLines
    /\ aiAnalysis.issues =
           [critical |-> 0, major |-> 0, minor |-> 0, suggestions |-> 1]
    /\ scores.quality = Tenths(65)
    /\ scores.maintainability = Tenths(65)
    /\ scores.security = Tenths(100)

\* C30: when the manual trigger endpoint answers 500 'Failed to start
\* analysis', no analysis run was launched for that request: every launched
\* run gets its failure handler attached and the 'processing' response, also
\* when the update of the usage counter fails after the launch.
C30_ErrorResponseMeansNoRun ==
    \A q \in DOMAIN requests :
        ( /\ requests[q].endpoint = "POST /:id/analyze"
          /\ requests[q].pc = "answered"
          /\ requests[q].status = 500 )
        => requests[q].run = "none"

\* the lines of a text, in order
LinesOf(s) ==
    LET pos == SelectSeq([i \in 1..Len(s) |-> i], LAMBDA i : s[i] = "\n")
        at(k) == IF k = 0 THEN 0
                 ELSE IF k > Len(pos) THEN Len(s) + 1 ELSE pos[k]
    IN  [k \in 1..(Len(pos) + 1) |-> SubSeq(s, at(k - 1) + 1, at(k) - 1)]

\* the inference request of the run was made, with its code summary
SummarySent == calls.inference = 1

\* a line that starts the block of a file
HeaderLine(line) == Len(line) >= 6 /\ SubSeq(line, 1, 6) = <<"F", "i", "l", "e", ":", " ">>

\* the summary names at most 20 files, and its k-th block is the block of
\* the k-th collected file
FirstTwentyFiles ==
    LET headers == SelectSeq(LinesOf(codeSummary), HeaderLine)
    IN  /\ Len(headers) <= 20
        /\ Len(headers) <= Len(codeFiles)
        /\ Len(codeSummary) <= 30000 => Len(headers) = Min(20, Len(codeFiles))
        /\ \A k \in 1..Len(headers) :
              LET path == join(codeFiles[k].path, <<"/">>)
              IN  \/ SubSeq(headers[k], 7, 6 + Len(path)) = path
                  \/ /\ k = Len(headers)
                     /\ Len(codeSummary) > 30000

\* every line of the summary that is no line of the frame of a block is one
\* of the first 20 lines of one of the first 20 files (the last one may be
\* shortened by the cut), and there are at most 20 of them for each file
FirstTwentyLines ==
    LET lines == LinesOf(codeSummary)
        n == Min(20, Len(codeFiles))
        first(f) == LET all == split(codeFiles[f].content)
                    IN  {all[l] : l \in 1..Min(20, Len(all))}
        kept == UNION {first(f) : f \in 1..n}
        frame(line) == HeaderLine(line) \/ line \in {<<>>, <<".", ".", ".">>, <<"-", "-", "-">>}
        content == SelectSeq(lines, LAMBDA line : ~frame(line))
    IN  /\ SelectSeq(SubSeq(content, 1, Len(content) - 1),
                     LAMBDA line : line \notin kept) = <<>>
        /\ content # <<>> /\ Len(codeSummary) <= 30000
              => content[Len(content)] \in kept
        /\ Len(content) <= 20 * n

\* C28 as stated: the code summary sent to the inference service is built
\* from at most the first 20 collected files in traversal order, each
\* contributing at most its first 20 lines, and the summary string is
\* truncated to 30,000 characters.
C28_SummaryWithinLimits ==
    SummarySent
        => /\ FirstTwentyFiles
           /\ FirstTwentyLines
           /\ Len(codeSummary) <= 30000

\* C28, amended: the code summary is built from at most the first 20
\* collected files in traversal order, each contributing at most its first
\* 20 lines; a summary of more than 30,000 characters is cut to its first
\* 30,000 characters and '...' is appended, so the string sent has at most
\* 30,003 characters.
C28_SummaryCutPlusEllipsis ==
    SummarySent
        => /\ FirstTwentyFiles
           /\ FirstTwentyLines
           /\ Len(codeSummary) <= 30003
           /\ Len(codeSummary) > 30000
              => /\ Len(codeSummary) = 30003
                 /\ SubSeq(codeSummary, 30001, 30003) = <<".", ".", ".">>

\* 21 files of 21 lines whose summary was cut
C28_Witness ==
    /\ SummarySent
    /\ Len(codeFiles) > 20
    /\ \A f \in 1..Len(codeFiles) : Len(split(codeFiles[f].content)) > 20
    /\ Len(codeSummary) = 30003

\* the pending operation is divide and the entry parses to 0
DivisionByZero ==
    /\ calculator.operation = "divide"
    /\ parseFloat(calculator.currentValue) = Zero

\* C22: whenever the pending operation is divide and the current entry
\* parses to 0, equals() and performOperation(next) return false and leave
\* currentValue, previousValue, operation and waitingForOperand unchanged;
\* in every other case they return true.
C22_DivisionByZeroRefused ==
    [][key' \in OperationKeys \cup {"equals"}
          => IF DivisionByZero
             THEN result' = FALSE /\ calculator' = calculator
             ELSE result' = TRUE]_vars

\* 5 / 0 + : performOperation('add') returned false
C22_Witness ==
    /\ key = "add"
    /\ result = FALSE
    /\ DivisionByZero
    /\ calculator.previousValue = [m |-> 5, s |-> 0]

\* the operands and operators of the chain
operand(n) == parseFloat(<<chain[n]>>)

\* Infinity or NaN, the quotient of a division by zero in the language
NonFinite == [nonFinite |-> TRUE]

\* x op y for a binary operator and a divisor other than zero
Value(x, op, y) ==
    CASE op = "add" -> plus(x, y)
      [] op = "subtract" -> plus(x, [y EXCEPT !.m = -@])
      [] op = "multiply" -> times(x, y)
      [] op = "divide" -> over(x, y)

\* x op y in the arithmetic of the language
Arithmetic(x, op, y) ==
    IF x = NonFinite \/ (op = "divide" /\ y = Zero)
    THEN NonFinite
    ELSE Value(x, op, y)

\* the state after a, op1, b, op2 and after a, op1, b, op2, c, equals, for
\* the value `first` of a op1 b and the value `second` of (a op1 b) op2 c
LeftToRight(first, second) ==
    /\ Len(chain) \in {4, 5}
          => /\ calculator.previousValue = first
             /\ calculator.operation = chain[4]
    /\ Len(chain) = 4
          => /\ calculator.currentValue = String(first)
             /\ display = String(first)
    /\ Len(chain) = 6
          => /\ calculator.currentValue = String(second)
             /\ display = String(second)

\* C23 as stated: for operands a, b, c and operators op1, op2 the sequence
\* a, op1, b, op2, c, equals leaves currentValue = (a op1 b) op2 c, the
\* intermediate result a op1 b being shown and stored as previousValue when
\* op2 is pressed.
C23_ChainedLeftToRight ==
    Len(chain) >= 4
        => LET first == Arithmetic(operand(1), chain[2], operand(3))
           IN  /\ first # NonFinite
               /\ LeftToRight(first,
                              IF Len(chain) = 6
                              THEN Arithmetic(first, chain[4], operand(5))
                              ELSE Zero)
               /\ Len(chain) = 6
                     => Arithmetic(first, chain[4], operand(5)) # NonFinite

\* neither a op1 b nor (a op1 b) op2 c divides by zero
NoZeroDivisor ==
    /\ ~(chain[2] = "divide" /\ operand(3) = Zero)
    /\ Len(chain) = 6 => ~(chain[4] = "divide" /\ operand(5) = Zero)

\* C23, amended: chained operations are evaluated strictly left to right
\* with no precedence: unless a step divides by zero, the sequence a, op1,
\* b, op2, c, equals leaves currentValue = (a op1 b) op2 c, the intermediate
\* result a op1 b being shown and stored as previousValue when op2 is
\* pressed.
C23_ChainedUnlessDivisionByZero ==
    (Len(chain) >= 4 /\ NoZeroDivisor)
        => LET first == Value(operand(1), chain[2], operand(3))
           IN  LeftToRight(first,
                           IF Len(chain) = 6
                           THEN Value(first, chain[4], operand(5))
                           ELSE Zero)

\* 5 + 5 * 5 = 50, not 30
C23_Witness ==
    /\ chain = <<"5", "add", "5", "multiply", "5", "equals">>
    /\ calculator.currentValue = <<"5", "0">>
    /\ display = <<"5", "0">>

\* the number of decimal points of the entry
Points == Cardinality({i \in 1..Len(calculator.currentValue) :
                          calculator.currentValue[i] = "."})

\* C24: currentValue contains at most one decimal point; inputDecimal on an
\* entry that already has a point leaves it unchanged, and inputDecimal
\* while waiting for an operand starts the new entry '0.'.
C24_AtMostOneDecimalPoint ==
    /\ [](Points <= 1)
    /\ [][key' = "decimal"
             => IF calculator.waitingForOperand
                THEN calculator'.currentValue = <<"0", ".">>
                ELSE IF Points > 0
                     THEN calculator' = calculator
                     ELSE calculator'.currentValue
                              = calculator.currentValue \o <<".">>]_vars

\* the point pressed again on the entry 0.5
C24_Witness ==
    /\ key = "decimal"
    /\ calculator.currentValue = <<"0", ".", "5">>
    /\ ~calculator.waitingForOperand

\* the messages of showError
ErrorMessages == {<<"E", "r", "r", "o", "r">>, <<"C", "a", "n", "n", "o", "t", " ", "d", "i", "v", "i", "d", "e", " ", "b", "y", " ", "z", "e", "r", "o">>}

\* C25: when an equals or operator action fails, the display shows the
\* error message instead of a value, and when the 1500 ms timer fires the
\* calculator is reset to its initial state and the display shows '0',
\* whatever keys or buttons were pressed between the error and the timer.
C25_ErrorShownThenReset ==
    /\ [][/\ result' = FALSE
             => /\ display' = IF key' = "equals"
                              THEN <<"E", "r", "r", "o", "r">>
                              ELSE <<"C", "a", "n", "n", "o", "t", " ", "d", "i", "v", "i", "d", "e", " ", "b", "y", " ", "z", "e", "r", "o">>
                /\ timers' = timers + 1
          /\ timers' < timers
             => /\ calculator' = reset
                /\ display' = <<"0">>]_vars
    /\ [](display \in ErrorMessages => timers > 0)

\* the timer of a first error fired after a second error
C25_Witness ==
    /\ key = "timeout"
    /\ calculator = reset
    /\ display = <<"0">>
    /\ timers = 1

====
